---- MODULE Spec2Model ----
(***************************************************************************)
(* Real-estate unrealized-gain analyzer: the resumable batch drivers       *)
(* (main.py analyze_topix500, weekly_runner.py run_batch), the per-entity  *)
(* pipeline result they store, and the checkpoint file                     *)
(* output/analysis_results.json they rewrite; then the components a run    *)
(* calls, each observed on its own: the valuation of a property            *)
(* (land_price.py), the stages of analyze_single_company, the filing       *)
(* search with its cache file (edinet_api.py) and the geocode memo.        *)
(***************************************************************************)
EXTENDS Integers, Sequences, FiniteSets, TLC

\* ------------------------------------------------------------------ bounds
RosterLen == 3       \* number of stocks in the roster (cache/topix500.json)
MaxRuns == 3         \* number of batch runs started in one behaviour

\* ------------------------------------------------------------- vocabulary
Codes == 1..RosterLen

None == "None"
NoEdinetError == "EDINET code not found"

\* What the external services do to one pipeline invocation.
Outcomes ==
  {"report_error", "no_property_text", "extract_error", "no_properties",
   "estimate_raises", "map_raises", "ok"}

Range(s) == {s[j] : j \in 1..Len(s)}

Min(a, b) == IF a < b THEN a ELSE b

VARIABLES
  topix500,          \* the roster fetch_topix500 returns: <<[code, edinet_code]>>
  results_file,      \* analysis_results.json: [state, data]
  pc,                \* position of the (single) batch run
  driver,            \* "analyze_topix500" | "run_batch" | "none"
  skip_existing,     \* analyze_topix500's flag (run_batch always resumes)
  arg,               \* limit of analyze_topix500 (0 = None) / batch_size of run_batch
  stocks,            \* stocks[:limit] of analyze_topix500 / batch of run_batch
  i,                 \* index of the loop over stocks
  results,           \* the in-memory result list
  existing_results,  \* analyze_topix500: stock_code -> stored result
  run,               \* number of runs started; also the clock of analyzed_at
  start_file,        \* history: results_file when the current run started
  processed,         \* history: <<[code, outcome]>> handled (not skipped) by this run
  mode               \* history: how this run relates to the previous one

batchVars ==
  <<topix500, results_file, pc, driver, skip_existing, arg, stocks, i, results,
    existing_results, run, start_file, processed, mode>>

\* The components the batch drivers call, each observed on its own:
VARIABLES
  val,               \* one call of ValueEstimator.estimate_market_value
  pipe,              \* one call of analyze_single_company, stage by stage
  filing,            \* EDINETClient: the filing cache of one entity, the clock
  geo,               \* LandPriceClient: the geocode memo and its lookups
  price,             \* one valuation with the geocoder and the price source
  parse,             \* one call of PropertyExtractor.extract_properties
  summary            \* one call of RealEstateAnalyzer._print_summary

componentVars == <<val, pipe, filing, geo, price, parse, summary>>

vars == <<batchVars, componentVars>>

\* ------------------------------------------------------------- the roster
\* fetch_topix500: the roster read from cache/topix500.json, distinct codes in
\* a fixed order.  A stock carries its own edinet_code or None (0): here the
\* stocks 1, 5, ... carry one.
fetch_topix500 ==
  [c \in Codes |-> [code |-> c, edinet_code |-> IF c % 4 = 1 THEN 100 + c ELSE 0]]

\* get_edinet_code_mapping: the dictionary stock code -> EDINET code; it does
\* not cover the whole roster (here: the odd codes).  So stock 1 has a code of
\* its own and one in the mapping, stock 2 has none, stock 3 only the mapping's.
edinet_mapping == [c \in {c \in Codes : c % 2 = 1} |-> 200 + c]

\* the mapping asked first, the code of the roster entry only after it
MappingFirst(stock) ==
  IF stock.code \in DOMAIN edinet_mapping THEN edinet_mapping[stock.code]
  ELSE stock.edinet_code

\* stock.get("edinet_code") or edinet_mapping.get(stock_code); 0 is None.
EdinetCodeOf(stock) ==
  IF stock.edinet_code # 0 THEN stock.edinet_code
  ELSE IF stock.code \in DOMAIN edinet_mapping THEN edinet_mapping[stock.code]
  ELSE 0

\* ----------------------------------------------------- the checkpoint file
\* The file is absent, holds a JSON array, or holds the truncated output of an
\* interrupted open(results_file, "w") ... json.dump(...).
AbsentFile == [state |-> "absent", data |-> <<>>]
TornFile == [state |-> "torn", data |-> <<>>]
JsonFile(rs) == [state |-> "json", data |-> rs]

\* open(path, "w"): the file is created or truncated when it is opened.
OpenForWrite(f) == TornFile

\* json.dump(results, f) followed by the close at the end of the with block.
DumpAndClose(rs) == JsonFile(rs)

\* r.get("error") as a truth value
HasError(r) == r.error # None

StockCodes(rs) == {rs[j].stock_code : j \in 1..Len(rs)}

\* ------------------------------------------------ the per-entity pipeline
BaseResult(stock_code, edinet_code, now) ==
  [stock_code |-> stock_code, edinet_code |-> edinet_code, analyzed_at |-> now,
   properties |-> 0, map_path |-> FALSE, error |-> None]

Returned(r) == [raised |-> FALSE, value |-> r]
Raised == [raised |-> TRUE, value |-> None]

\* analyze_single_company without its try/except: an exception raised by a
\* stage leaves the function.
analyze_single_company_uncaught(stock_code, edinet_code, now, oc) ==
  LET result == BaseResult(stock_code, edinet_code, now) IN
  IF oc = "report_error"
    THEN Returned([result EXCEPT !.error = "report error"])
  ELSE IF oc = "no_property_text"
    THEN Returned([result EXCEPT !.error = "no property section"])
  ELSE IF oc = "extract_error"
    THEN Returned([result EXCEPT !.error = "extraction error"])
  ELSE IF oc = "no_properties"
    THEN Returned([result EXCEPT !.error = "no properties extracted"])
  ELSE IF oc \in {"estimate_raises", "map_raises"}
    THEN Raised
  ELSE Returned([result EXCEPT !.properties = 1, !.map_path = TRUE])

\* analyze_single_company: oc is what the external services do to this call;
\* properties is the number of valued properties in the result.
analyze_single_company(stock_code, edinet_code, now, oc) ==
  LET result == BaseResult(stock_code, edinet_code, now) IN
  IF oc = "report_error"
    THEN Returned([result EXCEPT !.error = "report error"])
  ELSE IF oc = "no_property_text"
    THEN Returned([result EXCEPT !.error = "no property section"])
  ELSE IF oc = "extract_error"
    THEN Returned([result EXCEPT !.error = "extraction error"])
  ELSE IF oc = "no_properties"
    THEN Returned([result EXCEPT !.error = "no properties extracted"])
  ELSE IF oc = "estimate_raises"
    \* except Exception as e: result["error"] = str(e)
    THEN Returned([result EXCEPT !.error = "exception"])
  ELSE IF oc = "map_raises"
    \* the totals and properties were already assigned when the map step raised
    THEN Returned([result EXCEPT !.properties = 1, !.error = "exception"])
  ELSE Returned([result EXCEPT !.properties = 1, !.map_path = TRUE])

\* The record appended for a stock without EDINET code.  analyze_topix500
\* stores no analyzed_at (0), run_batch stores the current time.
NoEdinetResult(stock_code, at) ==
  [stock_code |-> stock_code, edinet_code |-> 0, analyzed_at |-> at,
   properties |-> 0, map_path |-> FALSE, error |-> NoEdinetError]

\* ---------------------------------------------------- resume computations
\* {r["stock_code"]: r for r in existing}: a later entry replaces an earlier one
ExistingResults(existing) ==
  [c \in StockCodes(existing) |->
     existing[CHOOSE j \in 1..Len(existing) :
                /\ existing[j].stock_code = c
                /\ \A k \in (j + 1)..Len(existing) : existing[k].stock_code # c]]

\* get_progress: {r["stock_code"] for r in results if not r.get("error")}
AnalyzedCodes(rs) == {rs[j].stock_code : j \in {k \in 1..Len(rs) : ~HasError(rs[k])}}

\* The filter with its test inverted
IsPendingInverted(s, analyzed_codes) == s.code \in analyzed_codes

IsPending(s, analyzed_codes) == s.code \notin analyzed_codes

\* [s for s in stocks if s["code"] not in progress["analyzed_codes"]]
PendingStocks(all_stocks, analyzed_codes) ==
  SelectSeq(all_stocks, LAMBDA s : IsPending(s, analyzed_codes))

\* the slice left out: every pending stock is taken
TakeAll(s, n) == s

\* stocks[:n]
Take(s, n) == SubSeq(s, 1, Min(n, Len(s)))

\* ------------------------------------------------------------------ state
NoRun == {"idle", "done", "stopped", "crashed", "load_error", "aborted"}

EmptyDict == [c \in {} |-> None]

\* No run has started and there is no checkpoint file yet.
BatchAtRest ==
  /\ topix500 = fetch_topix500
  /\ results_file = AbsentFile
  /\ pc = "idle"
  /\ driver = "none"
  /\ skip_existing = FALSE
  /\ arg = 0
  /\ stocks = <<>>
  /\ i = 0
  /\ results = <<>>
  /\ existing_results = EmptyDict
  /\ run = 0
  /\ start_file = AbsentFile
  /\ processed = <<>>
  /\ mode = "fresh"

\* No component is observed on its own.
NotObserved == [pc |-> "unobserved"]

ComponentsAtRest ==
  /\ val = NotObserved
  /\ pipe = NotObserved
  /\ filing = NotObserved
  /\ geo = NotObserved
  /\ price = NotObserved
  /\ parse = NotObserved
  /\ summary = NotObserved

Init == BatchAtRest /\ ComponentsAtRest

\* The run that starts repeats the previous one: same driver, same argument,
\* skip-existing in force in both.
SameRunAgain(d, a, skip) ==
  /\ driver = d
  /\ arg = a
  /\ skip
  /\ (driver = "analyze_topix500" => skip_existing)

\* A run_batch run took every pending stock into its batch.
TookAllPending ==
  driver = "run_batch" =>
    Len(processed) = Len(PendingStocks(topix500, AnalyzedCodes(start_file.data)))

\* The relation of a starting run to the run before it.
ModeOf(d, a, skip) ==
  IF pc = "done" /\ SameRunAgain(d, a, skip) /\ TookAllPending THEN "rerun"
  ELSE IF pc = "stopped" /\ SameRunAgain(d, a, skip) THEN "resumed"
  ELSE "fresh"

\* json.load raises on a truncated file: the run ends before it did anything.
LoadError(d, a, skip) ==
  /\ pc' = "load_error"
  /\ driver' = d
  /\ skip_existing' = skip
  /\ arg' = a
  /\ stocks' = <<>>
  /\ i' = 0
  /\ results' = <<>>
  /\ existing_results' = EmptyDict
  /\ run' = run + 1
  /\ start_file' = results_file
  /\ processed' = <<>>
  /\ mode' = "fresh"
  /\ UNCHANGED <<componentVars, topix500, results_file>>

\* ------------------------------------------- main.py: analyze_topix500
\* the checkpoint read whatever the flag says
ReadsCheckpointAlways(skip) == TRUE

\* if skip_existing and results_file.exists(): the file, when there is one,
\* is opened and parsed only with the flag set
ReadsCheckpoint(skip) == skip

\* Lines 176-193: roster, limit, the empty result list, the stored results.
StartAnalyze(limit, skip) ==
  /\ pc \in NoRun
  /\ run < MaxRuns
  /\ IF ReadsCheckpoint(skip) /\ results_file.state = "torn"
       THEN LoadError("analyze_topix500", limit, skip)
       ELSE /\ pc' = "loop"
            /\ driver' = "analyze_topix500"
            /\ skip_existing' = skip
            /\ arg' = limit
            /\ stocks' = IF limit # 0 THEN Take(topix500, limit) ELSE topix500
            /\ i' = 1
            /\ results' = <<>>
            /\ existing_results' =
                 IF ReadsCheckpoint(skip) /\ results_file.state = "json"
                   THEN ExistingResults(results_file.data)
                   ELSE EmptyDict
            /\ run' = run + 1
            /\ start_file' = results_file
            /\ processed' = <<>>
            /\ mode' = ModeOf("analyze_topix500", limit, skip)
            /\ UNCHANGED <<componentVars, topix500, results_file>>

InMainLoop ==
  /\ driver = "analyze_topix500"
  /\ pc = "loop"
  /\ i <= Len(stocks)

\* The skip test looking the stock up under the wrong key
SkippedByEdinetCode(stock) ==
  skip_existing /\ stock.edinet_code \in DOMAIN existing_results

Skipped(stock) == skip_existing /\ stock.code \in DOMAIN existing_results

\* Lines 200-202: a stored result is carried over; nothing is written.
MainSkip ==
  /\ InMainLoop
  /\ Skipped(stocks[i])
  /\ results' = Append(results, existing_results[stocks[i].code])
  /\ i' = i + 1
  /\ UNCHANGED <<componentVars, topix500, results_file, pc, driver, skip_existing, arg, stocks,
                 existing_results, run, start_file, processed, mode>>

\* Lines 205-213: no EDINET code: an error record is appended; the continue
\* statement passes over the save at lines 220-221.
MainNoEdinet ==
  /\ InMainLoop
  /\ ~Skipped(stocks[i])
  /\ EdinetCodeOf(stocks[i]) = 0
  /\ results' = Append(results, NoEdinetResult(stocks[i].code, 0))
  /\ processed' = Append(processed, [code |-> stocks[i].code, outcome |-> "no_edinet"])
  /\ i' = i + 1
  /\ UNCHANGED <<componentVars, topix500, results_file, pc, driver, skip_existing, arg, stocks,
                 existing_results, run, start_file, mode>>

\* Lines 216-217: the pipeline runs and its result is appended.  An exception
\* leaving analyze_single_company would leave analyze_topix500 too.
MainAnalyze(oc) ==
  /\ InMainLoop
  /\ ~Skipped(stocks[i])
  /\ EdinetCodeOf(stocks[i]) # 0
  /\ LET call == analyze_single_company(stocks[i].code, EdinetCodeOf(stocks[i]), run, oc) IN
       IF call.raised
         THEN /\ pc' = "aborted"
              /\ UNCHANGED results
         ELSE /\ pc' = "open"
              /\ results' = Append(results, call.value)
  /\ processed' = Append(processed, [code |-> stocks[i].code, outcome |-> oc])
  /\ UNCHANGED <<componentVars, topix500, results_file, driver, skip_existing, arg, stocks, i,
                 existing_results, run, start_file, mode>>

\* Line 220: open(results_file, "w")
MainOpen ==
  /\ driver = "analyze_topix500"
  /\ pc = "open"
  /\ results_file' = OpenForWrite(results_file)
  /\ pc' = "dump"
  /\ UNCHANGED <<componentVars, topix500, driver, skip_existing, arg, stocks, i, results,
                 existing_results, run, start_file, processed, mode>>

\* Line 221: json.dump(results, f), the file is closed, the loop goes on.
MainDump ==
  /\ driver = "analyze_topix500"
  /\ pc = "dump"
  /\ results_file' = DumpAndClose(results)
  /\ pc' = "loop"
  /\ i' = i + 1
  /\ UNCHANGED <<componentVars, topix500, driver, skip_existing, arg, stocks, results,
                 existing_results, run, start_file, processed, mode>>

\* Lines 224-226: the summary is printed and the list returned; no final save.
MainReturn ==
  /\ driver = "analyze_topix500"
  /\ pc = "loop"
  /\ i > Len(stocks)
  /\ pc' = "done"
  /\ UNCHANGED <<componentVars, topix500, results_file, driver, skip_existing, arg, stocks, i,
                 results, existing_results, run, start_file, processed, mode>>

\* ------------------------------------------- weekly_runner.py: run_batch
\* Lines 44-71: get_progress, the pending stocks, the batch, the copy of the
\* stored results.  With nothing pending the function returns at line 62.
StartBatch(batch_size) ==
  /\ pc \in NoRun
  /\ run < MaxRuns
  /\ IF results_file.state = "torn"
       THEN LoadError("run_batch", batch_size, TRUE)
       ELSE LET progress_results == results_file.data
                analyzed_codes == AnalyzedCodes(progress_results)
                pending_stocks == PendingStocks(topix500, analyzed_codes)
            IN  /\ pc' = IF pending_stocks = <<>> THEN "done" ELSE "loop"
                /\ driver' = "run_batch"
                /\ skip_existing' = TRUE
                /\ arg' = batch_size
                /\ stocks' = Take(pending_stocks, batch_size)
                /\ i' = 1
                /\ results' = progress_results
                /\ existing_results' = EmptyDict
                /\ run' = run + 1
                /\ start_file' = results_file
                /\ processed' = <<>>
                /\ mode' = ModeOf("run_batch", batch_size, TRUE)
                /\ UNCHANGED <<componentVars, topix500, results_file>>

InWeeklyLoop ==
  /\ driver = "run_batch"
  /\ pc = "loop"
  /\ i <= Len(stocks)

\* Lines 78-85: no EDINET code: an error record is appended; the continue
\* statement passes over the save at lines 91-92.
WeeklyNoEdinet ==
  /\ InWeeklyLoop
  /\ EdinetCodeOf(stocks[i]) = 0
  /\ results' = Append(results, NoEdinetResult(stocks[i].code, run))
  /\ processed' = Append(processed, [code |-> stocks[i].code, outcome |-> "no_edinet"])
  /\ i' = i + 1
  /\ UNCHANGED <<componentVars, topix500, results_file, pc, driver, skip_existing, arg, stocks,
                 existing_results, run, start_file, mode>>

\* Lines 87-88
WeeklyAnalyze(oc) ==
  /\ InWeeklyLoop
  /\ EdinetCodeOf(stocks[i]) # 0
  /\ LET call == analyze_single_company(stocks[i].code, EdinetCodeOf(stocks[i]), run, oc) IN
       IF call.raised
         THEN /\ pc' = "aborted"
              /\ UNCHANGED results
         ELSE /\ pc' = "open"
              /\ results' = Append(results, call.value)
  /\ processed' = Append(processed, [code |-> stocks[i].code, outcome |-> oc])
  /\ UNCHANGED <<componentVars, topix500, results_file, driver, skip_existing, arg, stocks, i,
                 existing_results, run, start_file, mode>>

\* Line 91: open(results_file, "w")
WeeklyOpen ==
  /\ driver = "run_batch"
  /\ pc = "open"
  /\ results_file' = OpenForWrite(results_file)
  /\ pc' = "dump"
  /\ UNCHANGED <<componentVars, topix500, driver, skip_existing, arg, stocks, i, results,
                 existing_results, run, start_file, processed, mode>>

\* Line 92
WeeklyDump ==
  /\ driver = "run_batch"
  /\ pc = "dump"
  /\ results_file' = DumpAndClose(results)
  /\ pc' = "loop"
  /\ i' = i + 1
  /\ UNCHANGED <<componentVars, topix500, driver, skip_existing, arg, stocks, results,
                 existing_results, run, start_file, processed, mode>>

\* Line 95: the final save is opened once the batch is exhausted.
WeeklyFinalOpen ==
  /\ driver = "run_batch"
  /\ pc = "loop"
  /\ i > Len(stocks)
  /\ results_file' = OpenForWrite(results_file)
  /\ pc' = "final_dump"
  /\ UNCHANGED <<componentVars, topix500, driver, skip_existing, arg, stocks, i, results,
                 existing_results, run, start_file, processed, mode>>

\* Lines 96-105: the final save is written and the function returns.
WeeklyFinalDump ==
  /\ driver = "run_batch"
  /\ pc = "final_dump"
  /\ results_file' = DumpAndClose(results)
  /\ pc' = "done"
  /\ UNCHANGED <<componentVars, topix500, driver, skip_existing, arg, stocks, i, results,
                 existing_results, run, start_file, processed, mode>>

\* ------------------------------------------------------------ interruption
\* The file holds exactly the results in memory: the run stands right after a
\* checkpoint write, between two entities.
AtCheckpoint ==
  /\ pc = "loop"
  /\ results # <<>>
  /\ results_file = JsonFile(results)

\* The process is stopped from outside (kill, power loss, quota exhaustion) at
\* any point of a run.  Memory is lost, the file stays as it is.
Crash ==
  /\ pc \notin NoRun
  /\ pc' = IF AtCheckpoint THEN "stopped" ELSE "crashed"
  /\ stocks' = <<>>
  /\ i' = 0
  /\ results' = <<>>
  /\ existing_results' = EmptyDict
  /\ processed' = <<>>
  /\ start_file' = results_file
  /\ mode' = "fresh"
  /\ UNCHANGED <<componentVars, topix500, results_file, driver, skip_existing, arg, run>>

\* --------------------------------------------------------- specification
\* The outcomes the batch runs draw from: a success, a failure returned by an
\* early stage, an exception raised by the last stage.
BatchOutcomes == {"ok", "report_error", "map_raises"}

Limits == 0..(RosterLen - 1)
BatchSizes == 1..RosterLen

Next ==
  \/ \E limit \in Limits, skip \in BOOLEAN : StartAnalyze(limit, skip)
  \/ MainSkip
  \/ MainNoEdinet
  \/ \E oc \in BatchOutcomes : MainAnalyze(oc)
  \/ MainOpen
  \/ MainDump
  \/ MainReturn
  \/ \E batch_size \in BatchSizes : StartBatch(batch_size)
  \/ WeeklyNoEdinet
  \/ \E oc \in BatchOutcomes : WeeklyAnalyze(oc)
  \/ WeeklyOpen
  \/ WeeklyDump
  \/ WeeklyFinalOpen
  \/ WeeklyFinalDump
  \/ Crash

Spec == Init /\ [][Next]_vars

\* analyze_topix500 alone (python main.py --all, with or without --no-cache and
\* --limit), the pipeline ending in every way it can end.
NextAnalyzeTopix500 ==
  \/ \E limit \in Limits, skip \in BOOLEAN : StartAnalyze(limit, skip)
  \/ MainSkip
  \/ MainNoEdinet
  \/ \E oc \in Outcomes : MainAnalyze(oc)
  \/ MainOpen
  \/ MainDump
  \/ MainReturn
  \/ Crash

SpecAnalyzeTopix500 == Init /\ [][NextAnalyzeTopix500]_vars

\* ------------------------------------------------- vocabulary of the claims
\* Skip-existing is in force: analyze_topix500 with the flag, or run_batch.
SkipEnabled ==
  \/ driver = "run_batch"
  \/ driver = "analyze_topix500" /\ skip_existing

\* A run is under way, or has returned and its result list is still in hand.
Running == pc \in {"loop", "open", "dump", "final_dump"}
RunningOrDone == Running \/ pc = "done"

NoDuplicateCodes(rs) ==
  \A j, k \in 1..Len(rs) : j # k => rs[j].stock_code # rs[k].stock_code

IsPrefix(s, t) == Len(s) <= Len(t) /\ SubSeq(t, 1, Len(s)) = s

\* Codes stored without error / with an error in a result list
StoredOk(rs) == {r.stock_code : r \in {x \in Range(rs) : x.error = None}}
StoredWithError(rs) == {r.stock_code : r \in {x \in Range(rs) : x.error # None}}

\* Codes this run handled itself (pipeline or "no EDINET code"), in order
ProcessedCodes == [j \in 1..Len(processed) |-> processed[j].code]

\* Codes this run invoked analyze_single_company for
InvokedCodes == {p.code : p \in {x \in Range(processed) : x.outcome # "no_edinet"}}

\* The roster of the run: stocks[:limit] for analyze_topix500, all stocks for run_batch
RunRoster == IF driver = "analyze_topix500" THEN stocks ELSE topix500

CodesOf(ss) == [j \in 1..Len(ss) |-> ss[j].code]

\* The results this run appended itself (not carried over from the file)
NewResults ==
  IF driver = "run_batch"
    THEN {results[j] : j \in (Len(start_file.data) + 1)..Len(results)}
    ELSE {results[j] : j \in {k \in 1..Len(results) : ~Skipped(stocks[k])}}

\* C1: the checkpoint file never holds two entries with the same stock_code,
\* whatever sequence of analyze_topix500 and run_batch runs produced it.
C1_UniqueStockCodes ==
  results_file.state = "json" => NoDuplicateCodes(results_file.data)

\* C2: a skip-existing run to completion that repeats a completed skip-existing
\* run over the same roster leaves the checkpoint file as the first run left it
\* and invokes the pipeline for no stock stored without error.
C2_Idempotent ==
  (pc = "done" /\ mode = "rerun" /\ TookAllPending) =>
    /\ results_file = start_file
    /\ InvokedCodes \cap StoredOk(start_file.data) = {}

\* C3: a skip-existing run that resumes a run stopped right after a checkpoint
\* write ends with a file that holds the stopped run's results first, then one
\* result for every other stock of the roster, no stock twice and none missing.
C3_ResumeCorrect ==
  (pc = "done" /\ mode = "resumed" /\ TookAllPending) =>
    /\ results_file.state = "json"
    /\ IsPrefix(start_file.data, results_file.data)
    /\ NoDuplicateCodes(results_file.data)
    /\ StockCodes(results_file.data) = Range(CodesOf(RunRoster))

\* C4: every result a run has appended (pipeline result or "no EDINET code"
\* record) is in the checkpoint file before the next stock is started, and
\* still when the run has ended.
C4_SavedAfterEveryEntity ==
  pc \in {"loop", "done"} =>
    \A r \in NewResults : results_file.state = "json" /\ r \in Range(results_file.data)

\* The results completed by the run: all it holds but the one being saved.
CompletedResults ==
  IF pc \in {"open", "dump"}
    THEN Range(SubSeq(results, 1, Len(results) - 1))
    ELSE Range(results)

\* C5: at whatever point a skip-existing run is cut off, the file still holds
\* every result it held when the run started and every result the run has
\* completed; only the result in flight may be missing.
C5_CrashLosesOnlyInFlight ==
  (Running /\ SkipEnabled) =>
    \A r \in Range(start_file.data) \cup CompletedResults :
      results_file.state = "json" /\ r \in Range(results_file.data)

\* C6: the checkpoint file on disk is a complete JSON array in every state,
\* also in the middle of a rewrite.
C6_AlwaysValidJson == results_file.state # "torn"

\* C7: with skip-existing in force the pipeline is never invoked for a stock the
\* file held without error when the run started, and the stored result of every
\* such stock the run has passed is in the result list as it was stored.
C7_StoredSuccessNeverReprocessed ==
  (RunningOrDone /\ SkipEnabled) =>
    /\ InvokedCodes \cap StoredOk(start_file.data) = {}
    /\ driver = "run_batch" => IsPrefix(start_file.data, results)
    /\ driver = "analyze_topix500" =>
         \A k \in 1..Len(results) :
           stocks[k].code \in StoredOk(start_file.data) =>
             /\ results[k] \in Range(start_file.data)
             /\ results[k].stock_code = stocks[k].code
             /\ results[k].error = None

\* A skip-existing analyze_topix500 run has ended; it carried a stored success
\* over and invoked the pipeline for another stock.
C7_Witness ==
  /\ pc = "done"
  /\ driver = "analyze_topix500"
  /\ skip_existing
  /\ \E k \in 1..Len(stocks) : stocks[k].code \in StoredOk(start_file.data)
  /\ InvokedCodes # {}

\* C8: a run with skip-existing in force processes no stock whose stored result
\* carries an error.
C8_StoredErrorsNotRetried ==
  (RunningOrDone /\ SkipEnabled) =>
    Range(ProcessedCodes) \cap StoredWithError(start_file.data) = {}

\* C9 as stated: with skip-existing in force a run processes exactly the roster
\* stocks not stored without error, in roster order.
C9_ProcessesRosterMinusStoredOk ==
  (pc = "done" /\ SkipEnabled) =>
    ProcessedCodes =
      CodesOf(SelectSeq(RunRoster, LAMBDA s : s.code \notin StoredOk(start_file.data)))

\* C9 as amended: analyze_topix500 with skip-existing processes exactly the stocks
\* of its roster that have no entry at all in the file (with or without error);
\* run_batch processes the first batch_size stocks of the roster that are not
\* stored without error; both in roster order.
C9_ProcessesPendingPerDriver ==
  (pc = "done" /\ SkipEnabled) =>
    ProcessedCodes =
      IF driver = "analyze_topix500"
        THEN CodesOf(SelectSeq(stocks,
                       LAMBDA s : s.code \notin StockCodes(start_file.data)))
        ELSE CodesOf(Take(SelectSeq(topix500,
                            LAMBDA s : s.code \notin StoredOk(start_file.data)), arg))

\* A finished skip-existing analyze_topix500 run that found stored errors and
\* stored successes in the file and processed some stock itself.
C9_Witness ==
  /\ pc = "done"
  /\ driver = "analyze_topix500"
  /\ skip_existing
  /\ StoredWithError(start_file.data) # {}
  /\ StoredOk(start_file.data) # {}
  /\ processed # <<>>

PositionOf(code) == CHOOSE k \in 1..Len(stocks) : stocks[k].code = code

\* C10: no pipeline failure ends analyze_topix500: the run never aborts, its
\* result list follows the roster entry by entry, it returns one result per
\* roster stock, and each result of the pipeline carries an error exactly when
\* the pipeline failed and the full result (properties, map) otherwise.
C10_FailedEntityNeverAborts ==
  /\ pc # "aborted"
  /\ (driver = "analyze_topix500" /\ RunningOrDone) =>
       /\ pc = "done" => Len(results) = Len(stocks)
       /\ \A k \in 1..Len(results) : results[k].stock_code = stocks[k].code
       /\ \A p \in Range(processed) :
            p.outcome # "no_edinet" =>
              LET r == results[PositionOf(p.code)] IN
                IF p.outcome = "ok"
                  THEN r.error = None /\ r.properties > 0 /\ r.map_path
                  ELSE r.error # None

\* analyze_topix500 has returned after a pipeline failure followed by a success
\* for a later stock.
C10_Witness ==
  /\ pc = "done"
  /\ driver = "analyze_topix500"
  /\ \E j, k \in 1..Len(processed) :
       /\ j < k
       /\ processed[j].outcome \in Outcomes \ {"ok"}
       /\ processed[k].outcome = "ok"

\* ------------------------------------------- land_price.py: the valuation
\* An optional JSON number: <<>> is None (null), <<v>> is the number v.
Unset == <<>>
Some(v) == <<v>>
IsSet(o) == o # Unset

\* The truth value Python gives an optional number: None and 0 are false.
Truthy(o) == o # Unset /\ o[1] # 0

\* x or 0
OrZero(o) == IF Truthy(o) THEN o[1] ELSE 0

\* Amounts of money are counted in tenths of a million yen, so that 0.5 and
\* 1.5 million yen are values; areas in square metres, prices in yen per sqm.

\* round(x, 0) left out: the amount is stored as computed.
NoRound(t) == t

\* round(x, 0) of an amount of t tenths: the nearest whole number of million
\* yen, a tie going to the even one (round(0.5) = 0, round(1.5) = 2,
\* round(-0.5) = 0).
Round(t) ==
  LET q == t \div 10
      r == t % 10
  IN  10 * (IF r < 5 THEN q
            ELSE IF r > 5 THEN q + 1
            ELSE IF q % 2 = 0 THEN q ELSE q + 1)

\* The two addresses of the model: the geocoder resolves the first and finds
\* nothing for the second (also not for its simplified form).
KnownAddress == "known address"
UnknownAddress == "unknown address"

NearestTrade == "nearest trade"
PrefectureAverage == "prefecture average"

\* averages["23"]["commercial"]: the known address lies in Aichi
AichiCommercialAverage == 600000

\* get_land_price_by_address: geocode the address, then ask the price source
\* around the coordinates.  A geocoder that is down or finds nothing gives no
\* coordinates and no price.  _search_nearest_price always answers: the
\* nearest land trade, or the prefecture average when the price source is down
\* or has nothing.  calls are the external services invoked.
get_land_price_by_address(address, world) ==
  IF world.geocoder = "up" /\ address = KnownAddress
    THEN IF world.price_source = "up"
           THEN [found |-> TRUE, price_per_sqm |-> world.price_per_sqm,
                 source |-> NearestTrade,
                 calls |-> <<"geocoder", "price source">>]
           ELSE [found |-> TRUE, price_per_sqm |-> AichiCommercialAverage,
                 source |-> PrefectureAverage,
                 calls |-> <<"geocoder", "price source">>]
    ELSE [found |-> FALSE, price_per_sqm |-> 0, source |-> None,
          calls |-> <<"geocoder">>]

\* property_info.get("type") == "賃貸" never holds
IsLeasedNever(property_info) == FALSE

\* property_info.get("type") == "賃貸"
IsLeased(property_info) == property_info.type = "leased"

\* "if not address" left out
NoAddressNever(property_info) == FALSE

\* not address
NoAddress(property_info) == property_info.address = ""

\* not land_area: None and 0 alike
NoLandArea(property_info) == ~Truthy(property_info.land_area_sqm)

\* (land_area * price_per_sqm) / 1_000_000, in tenths of a million yen
EstimatedValue(property_info, price_per_sqm) ==
  (property_info.land_area_sqm[1] * price_per_sqm) \div (1000000 \div 10)

\* property_info.get("book_value_million_yen", 0): the default only when the
\* key is not in the dictionary; a null stays None.
GetBookValue(property_info) ==
  IF property_info.has_book_value THEN property_info.book_value_million_yen
  ELSE Some(0)

\* land_price.get("source", ...) left out: the method is the default text
MethodDefault(land_price) == "land price data"

\* land_price.get("source", "地価データ"): every observation carries a source
MethodOf(land_price) == land_price.source

\* estimate_market_value, given what get_land_price_by_address returns for
\* the address (consulted only when the record is owned and has an address
\* and a land area); lookups is the history of the external calls made for
\* this record.
estimate_from(property_info, price_lookup) ==
  LET result ==
        [type |-> property_info.type,
         address |-> property_info.address,
         land_area_sqm |-> property_info.land_area_sqm,
         book_value_million_yen |-> GetBookValue(property_info),
         estimated_value_million_yen |-> Unset,
         unrealized_gain_million_yen |-> Unset,
         price_per_sqm_used |-> Unset,
         estimation_method |-> None,
         estimation_notes |-> None,
         lookups |-> <<>>]
  IN
  IF IsLeased(property_info)
    THEN [result EXCEPT !.estimation_notes = "leased: not valued",
                        !.unrealized_gain_million_yen = Some(0)]
  ELSE IF NoAddress(property_info)
    THEN [result EXCEPT !.estimation_notes = "no address"]
  ELSE IF NoLandArea(property_info)
    THEN [result EXCEPT !.estimation_notes = "no land area"]
  ELSE
    LET land_price == price_lookup IN
    IF land_price.found
      THEN
        LET estimated_value == EstimatedValue(property_info, land_price.price_per_sqm)
            book_value == OrZero(GetBookValue(property_info))
            unrealized_gain == estimated_value - book_value
        IN [result EXCEPT
              !.estimated_value_million_yen = Some(Round(estimated_value)),
              !.unrealized_gain_million_yen = Some(Round(unrealized_gain)),
              !.price_per_sqm_used = Some(land_price.price_per_sqm),
              !.estimation_method = MethodOf(land_price),
              !.estimation_notes = "reference land price",
              !.lookups = land_price.calls]
      ELSE [result EXCEPT !.estimation_notes = "land price lookup failed",
                          !.lookups = land_price.calls]

\* estimate_market_value in a world that is summed up by which services are
\* up
estimate_market_value(property_info, world) ==
  estimate_from(property_info,
                get_land_price_by_address(property_info.address, world))

\* The property records and price observations estimate_market_value is
\* applied to.  0.5 and 1.5 million yen are ties of round(); 2500 sqm at
\* 300000 yen with a book value of 150 is the documented example.
LandAreas == {Unset, Some(0), Some(5), Some(15), Some(2500)}
BuildingAreas == {Unset, Some(800)}
BookValues == {Unset, Some(0), Some(5), Some(1500)}
Prices == {100000, 300000}

PropertyRecords ==
  {[type |-> t, address |-> a, land_area_sqm |-> la, building_area_sqm |-> ba,
    book_value_million_yen |-> bv, has_book_value |-> hb] :
     t \in {"owned", "leased"},
     a \in {"", KnownAddress, UnknownAddress},
     la \in LandAreas, ba \in BuildingAreas,
     bv \in BookValues, hb \in BOOLEAN}
  \ {p \in [type : {"owned", "leased"},
            address : {"", KnownAddress, UnknownAddress},
            land_area_sqm : LandAreas, building_area_sqm : BuildingAreas,
            book_value_million_yen : BookValues, has_book_value : BOOLEAN] :
       ~p.has_book_value /\ p.book_value_million_yen # Unset}

\* What the world outside answers: the geocoder and the price source are up
\* or down, and the nearest land trade has a price.
Worlds ==
  [geocoder : {"up", "down"}, price_source : {"up", "down"},
   price_per_sqm : Prices]

\* One call of estimate_market_value on any property record.
InitValuation ==
  /\ BatchAtRest
  /\ price = NotObserved
  /\ parse = NotObserved
  /\ summary = NotObserved
  /\ pipe = NotObserved
  /\ filing = NotObserved
  /\ geo = NotObserved
  /\ val \in {[pc |-> "call", property_info |-> p, world |-> w] :
                p \in PropertyRecords, w \in Worlds}

EstimateMarketValue ==
  /\ val.pc = "call"
  /\ val' = [pc |-> "returned",
             property_info |-> val.property_info,
             world |-> val.world,
             result |-> estimate_market_value(val.property_info, val.world)]
  /\ UNCHANGED <<batchVars, pipe, filing, geo, price, parse, summary>>

NextValuation == EstimateMarketValue

SpecValuation == InitValuation /\ [][NextValuation]_vars

\* --------------------------------- land_price.py: estimate_company_portfolio
RECURSIVE SumTruthy(_, _)
\* total += evaluated[field] for the records where the field is truthy
SumTruthy(evaluated, field) ==
  IF evaluated = <<>> THEN 0
  ELSE OrZero(Head(evaluated)[field]) + SumTruthy(Tail(evaluated), field)

estimate_company_portfolio(properties, world) ==
  LET evaluated_properties ==
        [j \in 1..Len(properties) |-> estimate_market_value(properties[j], world)]
  IN [total_book_value_million_yen |->
        Round(SumTruthy(evaluated_properties, "book_value_million_yen")),
      total_estimated_value_million_yen |->
        Round(SumTruthy(evaluated_properties, "estimated_value_million_yen")),
      total_unrealized_gain_million_yen |->
        Round(SumTruthy(evaluated_properties, "unrealized_gain_million_yen")),
      properties |-> evaluated_properties]

\* ------------------------------------ main.py: analyze_single_company, staged
MaxProps == 2        \* properties in one extraction response

FilingResolution == "filing resolution"
TextExtraction == "text extraction"
PropertyExtraction == "property extraction"
Valuation == "valuation"
MapGeneration == "map generation"

\* How search_annual_report ends: a listing query that fails counts as an
\* empty listing and the search goes on, so a filing is found or not whether
\* or not queries failed; writing the cache file can raise.
SearchOutcomes ==
  {"found", "found after failed queries", "not found", "every query failed",
   "raises"}

\* How extract_property_section ends: the text of the section, or None when
\* the download failed or no file of the archive holds the section.
TextOutcomes == {"text", "download failed", "no section"}

\* fetch_property_info: the report on one entity; calls and failures are the
\* history of the stages it ran and of the external calls that failed.
fetch_property_info(search, text) ==
  LET search_failed ==
        IF search = "found after failed queries" THEN {"listing query"}
        ELSE IF search = "every query failed" THEN {"filing search"}
        ELSE {}
  IN
  IF search = "raises"
    THEN [error |-> "exception", property_text |-> FALSE,
          calls |-> <<FilingResolution>>, failures |-> search_failed]
  ELSE IF search \in {"not found", "every query failed"}
    THEN [error |-> "annual report not found", property_text |-> FALSE,
          calls |-> <<FilingResolution>>, failures |-> search_failed]
  ELSE IF text = "text"
    THEN [error |-> None, property_text |-> TRUE,
          calls |-> <<FilingResolution, TextExtraction>>,
          failures |-> search_failed]
  ELSE [error |-> "section extraction failed", property_text |-> FALSE,
        calls |-> <<FilingResolution, TextExtraction>>,
        failures |-> search_failed \cup
                       (IF text = "download failed"
                          THEN {"document download"} ELSE {})]

\* The property records of the extraction responses: a leased one, and owned
\* ones that are complete, without the book-value key, with a null book
\* value, without address, with an address the geocoder does not know, and
\* without land area.
PipelineRecords ==
  {p \in PropertyRecords :
     /\ p.building_area_sqm = Unset
     /\ \/ /\ p.address = KnownAddress
           /\ p.land_area_sqm = Some(2500)
           /\ p.book_value_million_yen = Some(5)
        \/ /\ p.type = "owned"
           /\ p.address = KnownAddress
           /\ p.land_area_sqm = Some(2500)
           /\ ~p.has_book_value
        \/ /\ p.type = "owned"
           /\ p.address = KnownAddress
           /\ p.land_area_sqm = Some(5)
           /\ p.has_book_value
           /\ p.book_value_million_yen = Unset
        \/ /\ p.type = "owned"
           /\ p.address \in {"", UnknownAddress}
           /\ p.land_area_sqm = Some(2500)
           /\ p.book_value_million_yen = Some(5)
        \/ /\ p.type = "owned"
           /\ p.address = KnownAddress
           /\ p.land_area_sqm = Unset
           /\ p.book_value_million_yen = Some(5)}

PropertyLists == UNION {[1..n -> PipelineRecords] : n \in 0..MaxProps}

\* What the extraction service does: the call raises, the answer is no JSON,
\* the answer is JSON but no object, or it is an object with a property list.
Responses == {"api raises", "not json", "not an object"}

\* extract_properties: the dictionary handed to the pipeline.  There is no
\* check of the JSON against a schema: whatever parses is returned.
extract_properties(response, properties) ==
  IF response = "api raises"
    THEN [is_dict |-> TRUE, error |-> "api error", properties |-> <<>>]
  ELSE IF response = "not json"
    THEN [is_dict |-> TRUE, error |-> "json parse error", properties |-> <<>>]
  ELSE IF response = "not an object"
    THEN [is_dict |-> FALSE, error |-> None, properties |-> <<>>]
  ELSE [is_dict |-> TRUE, error |-> None, properties |-> properties]

\* The result dictionary analyze_single_company starts from.
NewResult ==
  [total_book_value_million_yen |-> 0,
   total_estimated_value_million_yen |-> 0,
   total_unrealized_gain_million_yen |-> 0,
   properties |-> <<>>, map_path |-> FALSE, error |-> None]

\* analyze_single_company has been called and stands before its first stage.
PipeCalled ==
  [pc |-> "report", calls |-> <<>>, failures |-> {}, failed |-> None,
   response |-> None, extracted |-> <<>>, result |-> NewResult]

\* An exception raised inside the try block with no handler around it
Uncaught(p, stage) == [p EXCEPT !.pc = "raised", !.failed = stage]

\* except Exception as e: result["error"] = str(e); return result
Caught(p, stage) ==
  [p EXCEPT !.pc = "returned", !.failed = stage, !.result.error = "exception"]

\* result["error"] = ... without the return that follows it
GoOnWith(p, stage, error, next_pc) ==
  [p EXCEPT !.pc = next_pc, !.failed = stage, !.result.error = error]

\* result["error"] = ...; return result
ReturnWith(p, stage, error, next_pc) ==
  [p EXCEPT !.pc = "returned", !.failed = stage, !.result.error = error]

\* Step 1: report = self.report_fetcher.fetch_property_info(...)
PipeReport(search, text) ==
  /\ pipe.pc = "report"
  /\ LET report == fetch_property_info(search, text)
         p == [pipe EXCEPT !.calls = @ \o report.calls,
                           !.failures = @ \cup report.failures]
         stage == report.calls[Len(report.calls)]
     IN pipe' =
          IF report.error # None
            THEN ReturnWith(p, stage, "report error", "extract")
          ELSE IF ~report.property_text
            THEN ReturnWith(p, stage, "no property section", "extract")
          ELSE [p EXCEPT !.pc = "extract"]
  /\ UNCHANGED <<batchVars, val, filing, geo, price, parse, summary>>

\* Step 2: extracted = self.property_extractor.extract_properties(...)
PipeExtract(response, properties) ==
  /\ pipe.pc = "extract"
  /\ LET extracted == extract_properties(response, properties)
         p == [pipe EXCEPT !.calls = Append(@, PropertyExtraction),
                           !.response = response,
                           !.failures = @ \cup (IF response = "api raises"
                                                  THEN {"extraction service"}
                                                  ELSE {})]
     IN pipe' =
          IF ~extracted.is_dict
            \* extracted.get raises AttributeError
            THEN Caught(p, PropertyExtraction)
          ELSE IF extracted.error # None
            THEN ReturnWith(p, PropertyExtraction, "extraction error", "estimate")
          ELSE IF extracted.properties = <<>>
            THEN ReturnWith(p, None, "no properties extracted", "estimate")
          ELSE [p EXCEPT !.pc = "estimate", !.extracted = extracted.properties]
  /\ UNCHANGED <<batchVars, val, filing, geo, price, parse, summary>>

\* The external calls that failed while the records were valued.
LookupFailures(evaluated_properties, world) ==
  (IF world.geocoder = "down"
      /\ \E j \in 1..Len(evaluated_properties) :
            evaluated_properties[j].lookups # <<>>
     THEN {"geocoder"} ELSE {})
  \cup
  (IF world.price_source = "down"
      /\ \E j \in 1..Len(evaluated_properties) :
            Len(evaluated_properties[j].lookups) = 2
     THEN {"price source"} ELSE {})

\* Step 3: evaluated = self.value_estimator.estimate_company_portfolio(...).
\* A property that is no dictionary, or a land area that is no number, makes
\* the valuation raise.
PipeEstimate(world, raises) ==
  /\ pipe.pc = "estimate"
  /\ LET p == [pipe EXCEPT !.calls = Append(@, Valuation)]
         evaluated == estimate_company_portfolio(pipe.extracted, world)
     IN pipe' =
          IF raises
            THEN Caught(p, Valuation)
            ELSE [p EXCEPT
                    !.pc = "map",
                    !.failures = @ \cup LookupFailures(evaluated.properties, world),
                    !.result.total_book_value_million_yen =
                       evaluated.total_book_value_million_yen,
                    !.result.total_estimated_value_million_yen =
                       evaluated.total_estimated_value_million_yen,
                    !.result.total_unrealized_gain_million_yen =
                       evaluated.total_unrealized_gain_million_yen,
                    !.result.properties = evaluated.properties]
  /\ UNCHANGED <<batchVars, val, filing, geo, price, parse, summary>>

\* Step 4: self.map_generator.generate_company_map(...)
PipeMap(raises) ==
  /\ pipe.pc = "map"
  /\ LET p == [pipe EXCEPT !.calls = Append(@, MapGeneration)]
     IN pipe' =
          IF raises
            THEN Caught([p EXCEPT !.failures = @ \cup {"map generation"}],
                        MapGeneration)
            ELSE [p EXCEPT !.pc = "returned", !.result.map_path = TRUE]
  /\ UNCHANGED <<batchVars, val, filing, geo, price, parse, summary>>

InitPipeline ==
  /\ BatchAtRest
  /\ price = NotObserved
  /\ parse = NotObserved
  /\ summary = NotObserved
  /\ val = NotObserved
  /\ filing = NotObserved
  /\ geo = NotObserved
  /\ pipe = PipeCalled

NextPipeline ==
  \/ \E search \in SearchOutcomes, text \in TextOutcomes : PipeReport(search, text)
  \/ \E response \in Responses : PipeExtract(response, <<>>)
  \/ \E properties \in PropertyLists : PipeExtract("object", properties)
  \/ \E world \in Worlds, raises \in BOOLEAN : PipeEstimate(world, raises)
  \/ \E raises \in BOOLEAN : PipeMap(raises)

SpecPipeline == InitPipeline /\ [][NextPipeline]_vars

\* --------------------------------------------- claims about the pipeline
Returned1 == pipe.pc = "returned"

\* The external failures that end the pipeline, and those it lives with.
FatalFailures ==
  {"filing search", "document download", "extraction service", "map generation"}
AbsorbedFailures == {"listing query", "geocoder", "price source"}

StageOrder ==
  <<FilingResolution, TextExtraction, PropertyExtraction, Valuation,
    MapGeneration>>

\* C11 as stated: no exception leaves analyze_single_company, and every call
\* in which an external call failed (filing search, document download,
\* extraction service, geocoder, price source, map generation) returns a
\* result whose error is set.
C11_EveryExternalFailureSetsError ==
  /\ pipe.pc # "raised"
  /\ (Returned1 /\ pipe.failures # {}) => pipe.result.error # None

\* C11: no exception leaves analyze_single_company.  A filing search whose
\* queries all fail, a failed document download, a failed extraction call and
\* a failed map generation end in a returned result whose error is set.  A
\* failed listing query of a search that still finds the filing, a geocoder
\* failure and a price-source failure are absorbed: when nothing else fails
\* the pipeline runs to its last stage and returns a result without error.
C11_FailuresSetErrorOrAreAbsorbed ==
  /\ pipe.pc # "raised"
  /\ Returned1 =>
       /\ pipe.failures \cap FatalFailures # {} => pipe.result.error # None
       /\ (/\ pipe.failures \subseteq AbsorbedFailures
           /\ pipe.calls = StageOrder
           /\ pipe.failed = None) =>
            /\ pipe.result.error = None
            /\ pipe.result.properties # <<>>
            /\ pipe.result.map_path

\* The geocoder was down during the valuation and the call returned a result
\* without error.
C11_Witness ==
  /\ Returned1
  /\ "geocoder" \in pipe.failures
  /\ pipe.result.error = None

\* C12: the stages invoked are an initial part of filing resolution, text
\* extraction, property extraction, valuation, map generation (in this order,
\* none twice); a stage that fails is the last one invoked and the call has
\* returned; and after a failure of filing resolution, text extraction or
\* property extraction the result has no properties and totals of zero.
C12_TerminalOnFirstFailure ==
  pipe.pc # "unobserved" =>
    /\ IsPrefix(pipe.calls, StageOrder)
    /\ pipe.failed # None =>
         /\ Returned1
         /\ pipe.calls[Len(pipe.calls)] = pipe.failed
    /\ (Returned1 /\ pipe.failed \in {FilingResolution, TextExtraction,
                                      PropertyExtraction}) =>
         /\ pipe.result.properties = <<>>
         /\ pipe.result.total_book_value_million_yen = 0
         /\ pipe.result.total_estimated_value_million_yen = 0
         /\ pipe.result.total_unrealized_gain_million_yen = 0

\* Text extraction failed after the filing was resolved, and the call returned.
C12_Witness ==
  /\ Returned1
  /\ pipe.failed = TextExtraction
  /\ pipe.calls = <<FilingResolution, TextExtraction>>

\* C13: a returned result has a non-empty property list or an error, and
\* never both.
C13_ExactlyOneOfPropertiesOrError ==
  Returned1 =>
    ~((pipe.result.properties # <<>>) <=> (pipe.result.error # None))

\* C14: when the extraction service answers with an object holding no
\* property, the returned result has no error.
C14_ZeroPropertiesIsSuccess ==
  (Returned1 /\ pipe.response = "object" /\ pipe.extracted = <<>>) =>
    pipe.result.error = None

\* -------------------------------------------- claims about the valuation
Valued == val.pc = "returned"

\* v is x rounded to a whole number of million yen (both in tenths): a
\* multiple of ten nearest to x, the even one of the two when x lies halfway.
IsRounded(v, x) ==
  /\ v % 10 = 0
  /\ v - x \in -5..5
  /\ v - x \in {-5, 5} => (v \div 10) % 2 = 0

\* C15: for a leased property estimate_market_value returns an unrealized
\* gain of 0, leaves the estimated value, the price used and the estimation
\* method unset, and calls neither the geocoder nor the price source.
C15_LeasedNotValued ==
  (Valued /\ val.property_info.type = "leased") =>
    /\ val.result.unrealized_gain_million_yen = Some(0)
    /\ val.result.estimated_value_million_yen = Unset
    /\ val.result.price_per_sqm_used = Unset
    /\ val.result.estimation_method = None
    /\ val.result.lookups = <<>>

\* A leased property with a resolvable address and a land area, which would
\* have been valued had it been owned, has been through estimate_market_value.
C15_Witness ==
  /\ Valued
  /\ val.property_info.type = "leased"
  /\ val.property_info.address = KnownAddress
  /\ val.property_info.land_area_sqm = Some(2500)
  /\ val.world.geocoder = "up"
  /\ val.result.unrealized_gain_million_yen = Some(0)

\* An owned property record the valuation has no address or no land area for.
MissingInput(property_info) ==
  /\ property_info.type = "owned"
  /\ \/ property_info.address = ""
     \/ property_info.land_area_sqm = Unset

PriceResolved ==
  /\ Valued
  /\ val.property_info.type = "owned"
  /\ val.property_info.address # ""
  /\ Truthy(val.property_info.land_area_sqm)
  /\ val.result.price_per_sqm_used # Unset

\* A * P / 1,000,000 in tenths of a million yen
ExactEstimate ==
  (val.property_info.land_area_sqm[1] * val.result.price_per_sqm_used[1])
    \div 100000

\* the book value, 0 when absent
BookOrZero ==
  IF val.property_info.book_value_million_yen = Unset THEN 0
  ELSE val.property_info.book_value_million_yen[1]

\* C17 as stated: with a resolved price the estimated value is A*P/1,000,000
\* and the unrealized gain is the estimated value minus the book value (0 when
\* absent).
C17_ExactFormula ==
  PriceResolved =>
    /\ val.result.estimated_value_million_yen = Some(ExactEstimate)
    /\ val.result.unrealized_gain_million_yen =
         Some(val.result.estimated_value_million_yen[1] - BookOrZero)

\* C17: with a resolved price the estimated value is A*P/1,000,000 rounded to
\* a whole number of million yen (ties to even), and the unrealized gain is
\* A*P/1,000,000 minus the book value (0 when absent), rounded the same way;
\* the building area has no influence; A = 2500, P = 300000 and a book value
\* of 150 give 750 and 600.
C17_RoundedFormula ==
  PriceResolved =>
    /\ val.result.estimated_value_million_yen # Unset
    /\ val.result.unrealized_gain_million_yen # Unset
    /\ IsRounded(val.result.estimated_value_million_yen[1], ExactEstimate)
    /\ IsRounded(val.result.unrealized_gain_million_yen[1],
                 ExactEstimate - BookOrZero)
    /\ (/\ val.property_info.land_area_sqm = Some(2500)
        /\ val.result.price_per_sqm_used = Some(300000)
        /\ val.property_info.book_value_million_yen = Some(1500)) =>
         /\ val.result.estimated_value_million_yen = Some(7500)
         /\ val.result.unrealized_gain_million_yen = Some(6000)

\* The documented example has been valued, for a property that also has a
\* building area.
C17_Witness ==
  /\ PriceResolved
  /\ val.property_info.land_area_sqm = Some(2500)
  /\ val.property_info.building_area_sqm # Unset
  /\ val.property_info.book_value_million_yen = Some(1500)
  /\ val.result.price_per_sqm_used = Some(300000)
  /\ val.result.estimated_value_million_yen = Some(7500)
  /\ val.result.unrealized_gain_million_yen = Some(6000)

RECURSIVE SumPresent(_, _)
\* the sum of a field over the records where it is present
SumPresent(records, field) ==
  IF records = <<>> THEN 0
  ELSE (IF Head(records)[field] = Unset THEN 0 ELSE Head(records)[field][1])
       + SumPresent(Tail(records), field)

\* C18: estimate_company_portfolio returns one record per input property, in
\* input order; each total is the sum of its field over the records where the
\* field is present (in whole million yen, as the totals are stored); and a
\* property whose book value is not given has no book value in its record.
C18_SumOfKnownAbsentStaysUnset ==
  pipe.pc = "map" =>
    LET records == pipe.result.properties IN
    /\ Len(records) = Len(pipe.extracted)
    /\ \A j \in 1..Len(records) :
         /\ records[j].type = pipe.extracted[j].type
         /\ records[j].address = pipe.extracted[j].address
         /\ records[j].land_area_sqm = pipe.extracted[j].land_area_sqm
         /\ pipe.extracted[j].book_value_million_yen = Unset =>
              records[j].book_value_million_yen = Unset
    /\ IsRounded(pipe.result.total_book_value_million_yen,
                 SumPresent(records, "book_value_million_yen"))
    /\ IsRounded(pipe.result.total_estimated_value_million_yen,
                 SumPresent(records, "estimated_value_million_yen"))
    /\ IsRounded(pipe.result.total_unrealized_gain_million_yen,
                 SumPresent(records, "unrealized_gain_million_yen"))

\* ------------------------------- edinet_api.py: the filing search and cache
\* Time is counted in days; day 0 is 1 January of a year of 365 days.
DaysBeforeMonthEnd == <<31, 59, 90, 120, 151, 181, 212, 243, 273, 304, 334>>

\* the month of each day of the year
MonthOfDay ==
  [y \in 0..364 |-> Cardinality({m \in 1..11 : y >= DaysBeforeMonthEnd[m]}) + 1]

\* int(date.split('-')[1])
Month(day) == MonthOfDay[day % 365]

SearchWindowDays == 730
SampleStep == 3
RecentDays == 180
CacheFreshDays == 30
priority_months == {5, 6, 11, 12}

\* the test of the cache age left out: every cache file is taken
IsFreshAlways(cache_age) == TRUE

\* cache_age < 30
IsFresh(cache_age) == cache_age < CacheFreshDays

\* range(0, 730, 3): 0, 3, 6, ... below 730, in the order of the loop
SampledDaysAgo ==
  [n \in 1..((SearchWindowDays + SampleStep - 1) \div SampleStep) |->
     (n - 1) * SampleStep]

\* "if days_ago > 180 and month not in priority_months: continue" left out
SkippedNever(days_ago, today) == FALSE

\* if days_ago > 180 and month not in priority_months: continue
Skipped_date(days_ago, today) ==
  days_ago > RecentDays /\ Month(today - days_ago) \notin priority_months

\* The days_ago for which the loop reaches get_document_list, in the order of
\* the loop.
QueriedDaysAgo(today) ==
  SelectSeq(SampledDaysAgo, LAMBDA days_ago : ~Skipped_date(days_ago, today))

MaxTicks == 2        \* steps of the clock in one behaviour
MaxFilings == 1      \* filings published in one behaviour
MaxLookups == 2      \* geocoder lookups in one behaviour

\* The steps of the clock: to the last day a cache file is fresh and to the
\* first day it is not.  The first is no multiple of the sampling step, the
\* second is one.
Ticks == {CacheFreshDays - 1, CacheFreshDays}

\* 4 February of the second year, and a filing of 27 June of the first year:
\* 222 days earlier, a sampled day of a priority month.
StartDay == 365 + 34
OldFilingDay == StartDay - 222

\* QueriedDaysAgo on each day the clock can show
QueriedOn ==
  [today \in StartDay..(StartDay + MaxTicks * CacheFreshDays) |->
     QueriedDaysAgo(today)]

\* The cache file of the entity: absent, or written on day mtime with the
\* document found then.  A document is named by the day it was filed.
NoCacheFile == <<>>
CacheFile(mtime, doc) == <<[mtime |-> mtime, doc |-> doc]>>

\* "return None" preceded by a write of the negative result to the cache
WriteNotFound(cache, today) == CacheFile(today, Unset)

\* return None: the cache file stays as it was
KeepCache(cache, today) == cache

\* the loop goes on after "return doc": every date of the window is queried
QueryWholeWindow(dates, n) == dates

\* "return doc" inside the loop: the queries issued are those up to the date
\* whose listing holds the entity
QueryUntilMatch(dates, n) == SubSeq(dates, 1, n)

\* A cache file that cannot be read back: open() raises on it, or what it
\* holds is no JSON (the rest of a write that was interrupted, for one).
Damages == {"unreadable", "not json"}
DamagedFile(mtime, damage) == <<[mtime |-> mtime, doc |-> Unset, damage |-> damage]>>

\* open(cache_file, 'r') and json.load(f) both succeed
Loads(cache) == "damage" \notin DOMAIN cache[1]

\* no "except": the error of open() or json.load leaves the function
RaiseOnReadError(cache, searched) ==
  [doc |-> Unset, cache |-> cache, served_from |-> "raised", queries |-> 0,
   queried |-> <<>>, raised |-> TRUE]

\* except: pass -- the function goes on with the search
PassOnReadError(cache, searched) == searched

\* search_annual_report on day today, with the cache file cache and the
\* filings of the entity in the repository (published).  api is "up" or
\* "down": get_document_list answers a failed query with an empty listing.
\* Returns the document (or None), the cache file after the call, where the
\* answer came from, the number of listing queries issued and the days_ago
\* of the queries in the order they were issued.
search_annual_report(today, cache, published, api) ==
  LET cache_age == today - cache[1].mtime
      dates == QueriedOn[today]
      hits == IF api = "up"
                THEN {n \in 1..Len(dates) : today - dates[n] \in published}
                ELSE {}
      first == CHOOSE n \in hits : \A m \in hits : n <= m
      searched ==
        IF hits # {}
          THEN [doc |-> Some(today - dates[first]),
                cache |-> CacheFile(today, Some(today - dates[first])),
                served_from |-> "search",
                queries |-> Len(QueryUntilMatch(dates, first)),
                queried |-> QueryUntilMatch(dates, first), raised |-> FALSE]
          ELSE [doc |-> Unset, cache |-> KeepCache(cache, today),
                served_from |-> "not found",
                queries |-> Len(dates), queried |-> dates, raised |-> FALSE]
  IN
  IF cache # NoCacheFile /\ IsFresh(cache_age)
    THEN IF Loads(cache)
           THEN [doc |-> cache[1].doc, cache |-> cache, served_from |-> "cache",
                 queries |-> 0, queried |-> <<>>, raised |-> FALSE]
           ELSE PassOnReadError(cache, searched)
    ELSE searched

NoCall == [served_from |-> "none", doc |-> Unset, queries |-> 0, queried |-> <<>>,
           raised |-> FALSE,
           cache_before |-> NoCacheFile, day |-> 0, api |-> "up",
           published |-> {}, previous |-> "none", published_before |-> {}]

\* clock: the number of steps of the clock; last: the history of the last
\* call of search_annual_report.
FilingStart(published) ==
  [pc |-> "ready", today |-> StartDay, clock |-> 0, cache |-> NoCacheFile,
   published |-> published, filed |-> 0, last |-> NoCall]

\* One call of search_annual_report for the entity.
SearchAnnualReport(api) ==
  /\ filing.pc = "ready"
  /\ LET call == search_annual_report(filing.today, filing.cache,
                                      filing.published, api)
     IN filing' =
          [filing EXCEPT
             !.cache = call.cache,
             !.last = [served_from |-> call.served_from,
                       doc |-> call.doc,
                       queries |-> call.queries,
                       queried |-> call.queried,
                       raised |-> call.raised,
                       cache_before |-> filing.cache,
                       day |-> filing.today,
                       api |-> api,
                       published |-> filing.published,
                       previous |-> filing.last.served_from,
                       published_before |-> filing.last.published]]
  /\ UNCHANGED <<batchVars, val, pipe, geo, price, parse, summary>>

\* The entity files an annual report today: it is in the listing of the day.
Publish ==
  /\ filing.pc = "ready"
  /\ filing.filed < MaxFilings
  /\ filing.today \notin filing.published
  /\ filing' = [filing EXCEPT !.published = @ \cup {filing.today},
                              !.filed = @ + 1]
  /\ UNCHANGED <<batchVars, val, pipe, geo, price, parse, summary>>

\* Time passes.
Tick(days) ==
  /\ filing.pc = "ready"
  /\ filing.clock < MaxTicks
  /\ filing' = [filing EXCEPT !.today = @ + days, !.clock = @ + 1]
  /\ UNCHANGED <<batchVars, val, pipe, geo, price, parse, summary>>

\* ------------------------------------- land_price.py: the geocode memo
\* An address is an area with or without a house number at its end;
\* _simplify_address cuts the number off.
GeoAddresses == [area : {"Chiyoda"}, number : {"1-2-3", ""}]

_simplify_address(address) == [address EXCEPT !.number = ""]

\* What one call of the external geocoder does: it returns a location or
\* None, or it raises (a timeout, or any other error of the service).
GeocoderAnswers == {"location", "nothing", "times out", "raises"}

\* the answers that are exceptions
GeocoderRaises == {"times out", "raises"}

NoLocation == [area |-> "", number |-> ""]

\* the location found by the retry stored under the simplified address
RetryStoresSimplified(memo, address, first, retry, today) ==
  IF retry = "location"
    THEN [result |-> _simplify_address(address),
          memo |-> [a \in DOMAIN memo \cup {_simplify_address(address)} |->
                      IF a = _simplify_address(address)
                        THEN [location |-> _simplify_address(address),
                              stored |-> today]
                        ELSE memo[a]],
          external_calls |-> 2, answers |-> <<first, retry>>, raised |-> FALSE]
  ELSE [result |-> NoLocation, memo |-> memo, external_calls |-> 2,
        answers |-> <<first, retry>>, raised |-> FALSE]

\* The second call of the external geocoder, with the simplified address; a
\* location found is stored under the key of the address as given.  An
\* exception of this call ends in "return None" as well.
Retry(memo, address, first, retry, today) ==
  IF retry = "location"
    THEN [result |-> _simplify_address(address),
          memo |-> [a \in DOMAIN memo \cup {address} |->
                      IF a = address
                        THEN [location |-> _simplify_address(address),
                              stored |-> today]
                        ELSE memo[a]],
          external_calls |-> 2, answers |-> <<first, retry>>, raised |-> FALSE]
  ELSE [result |-> NoLocation, memo |-> memo, external_calls |-> 2,
        answers |-> <<first, retry>>, raised |-> FALSE]

\* no "except": the exception of the first call leaves _geocode
LetItRaise(memo, address, first, retry, today) ==
  [result |-> NoLocation, memo |-> memo, external_calls |-> 1,
   answers |-> <<first>>, raised |-> TRUE]

\* except Exception: return None -- an exception of the first call leaves the
\* try block, the retry is not reached
OnFirstException(memo, address, first, retry, today) ==
  [result |-> NoLocation, memo |-> memo, external_calls |-> 1,
   answers |-> <<first>>, raised |-> FALSE]

\* _geocode: memo is self._price_cache restricted to the geocode keys, a
\* function from addresses to the location stored and the day it was stored.
\* first and retry are the answers of the external geocoder to the address
\* and to its simplified form.
_geocode(memo, address, first, retry, today) ==
  IF address \in DOMAIN memo
    THEN [result |-> memo[address].location, memo |-> memo, external_calls |-> 0,
          answers |-> <<>>, raised |-> FALSE]
  ELSE IF first = "location"
    THEN [result |-> address,
          memo |-> [a \in DOMAIN memo \cup {address} |->
                      IF a = address THEN [location |-> address, stored |-> today]
                      ELSE memo[a]],
          external_calls |-> 1, answers |-> <<first>>, raised |-> FALSE]
  ELSE IF first \in GeocoderRaises
    THEN OnFirstException(memo, address, first, retry, today)
  ELSE IF _simplify_address(address) = address
    THEN [result |-> NoLocation, memo |-> memo, external_calls |-> 1,
          answers |-> <<first>>, raised |-> FALSE]
  ELSE Retry(memo, address, first, retry, today)

EmptyMemo == [a \in {} |-> NoLocation]

NoLookup == [address |-> NoLocation, result |-> NoLocation, external_calls |-> 0,
             answers |-> <<>>,
             memo_before |-> EmptyMemo, age |-> 0]

\* A LandPriceClient right after its construction; stored is the history of
\* the addresses ever stored in the memo.
GeoStart ==
  [pc |-> "ready", memo |-> EmptyMemo, lookups |-> 0, stored |-> {},
   last |-> NoLookup]

\* One call of _geocode on the client.
Geocode(address, first, retry) ==
  /\ geo.pc = "ready"
  /\ filing.pc = "ready"
  /\ geo.lookups < MaxLookups
  /\ LET call == _geocode(geo.memo, address, first, retry, filing.today)
     IN geo' =
          [geo EXCEPT
             !.memo = call.memo,
             !.lookups = @ + 1,
             !.stored = @ \cup DOMAIN call.memo,
             !.last = [address |-> address,
                       result |-> call.result,
                       external_calls |-> call.external_calls,
                       answers |-> call.answers,
                       memo_before |-> geo.memo,
                       age |-> IF address \in DOMAIN geo.memo
                                 THEN filing.today - geo.memo[address].stored
                                 ELSE 0]]
  /\ UNCHANGED <<batchVars, val, pipe, filing, price, parse, summary>>

\* The filing cache of one entity and the filings it publishes.
InitFilingCache ==
  /\ BatchAtRest
  /\ price = NotObserved
  /\ parse = NotObserved
  /\ summary = NotObserved
  /\ val = NotObserved
  /\ pipe = NotObserved
  /\ filing \in {FilingStart({}), FilingStart({OldFilingDay})}
  /\ geo = NotObserved

NextFilingCache ==
  \/ \E api \in {"up", "down"} : SearchAnnualReport(api)
  \/ Publish
  \/ \E days \in Ticks : Tick(days)

SpecFilingCache == InitFilingCache /\ [][NextFilingCache]_vars

\* The filing cache of one entity with a filing in the repository and the
\* geocode memo of one client, over the same days.
InitCaches ==
  /\ BatchAtRest
  /\ price = NotObserved
  /\ parse = NotObserved
  /\ summary = NotObserved
  /\ val = NotObserved
  /\ pipe = NotObserved
  /\ filing = FilingStart({OldFilingDay})
  /\ geo = GeoStart

NextCaches ==
  \/ \E api \in {"up", "down"} : SearchAnnualReport(api)
  \/ \E days \in Ticks : Tick(days)
  \/ \E address \in GeoAddresses, first \in GeocoderAnswers,
        retry \in GeocoderAnswers : Geocode(address, first, retry)

SpecCaches == InitCaches /\ [][NextCaches]_vars

\* ------------------------------------------------ claims about the caches
\* The last call of search_annual_report found a cache file of this age.
CacheAgeSeen == filing.last.day - filing.last.cache_before[1].mtime

\* C19: search_annual_report never answers from a cache file that is 30 or
\* more days old: it issues listing queries, and the file is replaced when
\* the search finds a filing and stays as it was when it finds none.  A
\* lookup of an address that is in the geocode memo returns the stored
\* location without a call of the external geocoder, whatever the age of the
\* entry, and no entry ever leaves the memo.
C19_CacheFreshness ==
  (filing.pc = "ready" /\ geo.pc = "ready") =>
    /\ (filing.last.served_from = "cache") =>
         /\ filing.last.cache_before # NoCacheFile
         /\ CacheAgeSeen < 30
    /\ (filing.last.cache_before # NoCacheFile /\ CacheAgeSeen >= 30) =>
         /\ filing.last.served_from \in {"search", "not found"}
         /\ filing.last.queries > 0
         /\ filing.last.served_from = "not found" =>
              filing.cache = filing.last.cache_before
         /\ filing.last.served_from = "search" =>
              filing.cache = <<[mtime |-> filing.last.day,
                                doc |-> filing.last.doc]>>
    /\ (geo.last.address \in DOMAIN geo.last.memo_before) =>
         /\ geo.last.external_calls = 0
         /\ geo.last.result = geo.last.memo_before[geo.last.address].location
    /\ geo.stored \subseteq DOMAIN geo.memo

\* The last filing search found a cache file of 30 days or more and replaced
\* it, and the last geocoder lookup was answered from a memo entry of 30 days
\* or more.
C19_Witness ==
  /\ filing.pc = "ready"
  /\ geo.pc = "ready"
  /\ filing.last.cache_before # NoCacheFile
  /\ CacheAgeSeen >= 30
  /\ filing.last.served_from = "search"
  /\ geo.last.address \in DOMAIN geo.last.memo_before
  /\ geo.last.age >= 30
  /\ geo.last.external_calls = 0

\* The filings published between the last two calls of search_annual_report.
PublishedMeanwhile == filing.last.published \ filing.last.published_before

\* The call before the last one ended in "not found".
AfterNotFound == filing.pc = "ready" /\ filing.last.previous = "not found"

\* C20 as stated: a search that ends in "not found" leaves the cache file as
\* it was, and the next call returns a filing published in the meantime (the
\* listing service being up).
C20_NotCachedSoLaterFound ==
  filing.pc = "ready" =>
    /\ filing.last.served_from = "not found" =>
         filing.cache = filing.last.cache_before
    /\ (/\ AfterNotFound
        /\ filing.last.api = "up"
        /\ PublishedMeanwhile # {}) =>
         /\ filing.last.doc # Unset
         /\ filing.last.doc[1] \in PublishedMeanwhile

\* The later call samples the day d: a multiple of three days back, within
\* 730 days, and within 180 days or in May, June, November or December.
SampledBy(day, d) ==
  /\ day - d \in 0..729
  /\ (day - d) % 3 = 0
  /\ day - d <= 180 \/ Month(d) \in {5, 6, 11, 12}

\* C20: a search that ends in "not found" leaves the cache file as it was, so
\* the next call is not answered from the cache but issues listing queries;
\* it returns a filing published in the meantime when the listing service is
\* up and the day of that filing is one the call samples.
C20_NotCachedSoSearchedAgain ==
  filing.pc = "ready" =>
    /\ filing.last.served_from = "not found" =>
         filing.cache = filing.last.cache_before
    /\ AfterNotFound =>
         /\ filing.last.served_from # "cache"
         /\ filing.last.queries > 0
    /\ (/\ AfterNotFound
        /\ filing.last.api = "up"
        /\ \E d \in PublishedMeanwhile : SampledBy(filing.last.day, d)) =>
         /\ filing.last.served_from = "search"
         /\ filing.last.doc # Unset
         /\ filing.last.doc[1] \in PublishedMeanwhile
         /\ SampledBy(filing.last.day, filing.last.doc[1])

\* A call that ended in "not found" was followed by the publication of a
\* filing and by a call that returned it.
C20_Witness ==
  /\ AfterNotFound
  /\ filing.last.served_from = "search"
  /\ filing.last.doc # Unset
  /\ filing.last.doc[1] \in PublishedMeanwhile

\* ------------------------------------------ claims about the filing search
\* The last call of search_annual_report went through the loop over the dates.
Searched == filing.pc = "ready" /\ filing.last.served_from \in {"search", "not found"}

\* The filing of day d is in the listing the last call got for days_ago.
Listed(days_ago) ==
  /\ filing.last.api = "up"
  /\ filing.last.day - days_ago \in filing.last.published

\* C21: a call of search_annual_report that is not answered from the cache
\* issues its listing queries for today, 3 days ago, 6 days ago, ... in this
\* order and never for a date 730 or more days back: at most 244 queries, no
\* date twice, no date of the sequence left out other than the dates more than
\* 180 days back that lie outside May, June, November and December, and those
\* are all left out.  The call returns the filing of the first queried date
\* whose listing holds the entity and issues no query after it; when no
\* queried date lists the entity, every date of the window has been queried
\* and the call returns None.
C21_SearchBoundedAndStopsAtFirstMatch ==
  Searched =>
    LET q == filing.last.queried
        day == filing.last.day
    IN /\ filing.last.queries = Len(q)
       /\ Len(q) \in 1..244
       /\ q[1] = 0
       /\ \A k \in 1..Len(q) :
            /\ q[k] \in 0..729
            /\ q[k] % 3 = 0
            /\ q[k] > 180 => Month(day - q[k]) \in {5, 6, 11, 12}
            /\ k > 1 => q[k - 1] < q[k]
            /\ \A d \in (IF k > 1 THEN q[k - 1] + 1 ELSE 0)..(q[k] - 1) :
                 ~SampledBy(day, day - d)
       /\ \A k \in 1..(Len(q) - 1) : ~Listed(q[k])
       /\ filing.last.served_from = "search" =>
            /\ Listed(q[Len(q)])
            /\ filing.last.doc = <<day - q[Len(q)]>>
       /\ filing.last.served_from = "not found" =>
            /\ ~Listed(q[Len(q)])
            /\ filing.last.doc = <<>>
            /\ \A d \in (q[Len(q)] + 1)..729 : ~SampledBy(day, day - d)

\* The last call queried dates more than 180 days back, passed over the dates
\* outside the priority months, and stopped at the filing it found there.
C21_Witness ==
  /\ Searched
  /\ filing.last.served_from = "search"
  /\ filing.last.queried[Len(filing.last.queried)] > 180
  /\ filing.last.queries < 244
  /\ \E d \in 181..729 :
       /\ d % 3 = 0
       /\ d < filing.last.queried[Len(filing.last.queried)]
       /\ \A k \in 1..Len(filing.last.queried) : filing.last.queried[k] # d

\* C22: the filing search_annual_report returns, from the search or from the
\* cache file, is the latest filing of the entity among those of the last 730
\* days in the repository.
C22_ReturnsMostRecentFiling ==
  (filing.pc = "ready" /\ filing.last.doc # <<>>) =>
    \A d \in filing.last.published :
      (filing.last.day - d \in 0..729) => d <= filing.last.doc[1]

\* --------------------------------------------- claims about the geocoder
\* The last lookup called the external geocoder and ended in "return None".
LookupFailed ==
  /\ geo.pc = "ready"
  /\ geo.last.external_calls > 0
  /\ geo.last.result = [area |-> "", number |-> ""]

\* The address of the last lookup ends in a house number.
HasNumber == geo.last.address.number # ""

\* C24: a lookup of an address with a house number that ends in "return
\* None" has called the external geocoder exactly twice, the second time for
\* the address without the number, whatever the failure of the first call
\* was (no match, timeout, service error); a location found by the second
\* call is returned and stored in the memo under the address as given.
C24_OneRetryBeforeNotFound ==
  /\ (LookupFailed /\ HasNumber) =>
       /\ geo.last.external_calls = 2
       /\ Len(geo.last.answers) = 2
  /\ (/\ geo.pc = "ready"
      /\ Len(geo.last.answers) = 2
      /\ geo.last.answers[2] = "location") =>
       /\ geo.last.result = [geo.last.address EXCEPT !.number = ""]
       /\ geo.last.address \in DOMAIN geo.memo
       /\ geo.memo[geo.last.address].location = geo.last.result

\* --------------- land_price.py: the price lookup, service by service
\* Places and their coordinates (lat, lng) in tenths of a degree.  Kanda and
\* Ginza lie at the same distance west and east of Chiyoda.
CoordinatesOf ==
  [Chiyoda  |-> [lat |-> 357, lng |-> 1397],
   Kanda    |-> [lat |-> 357, lng |-> 1396],
   Ginza    |-> [lat |-> 357, lng |-> 1398],
   Hachioji |-> [lat |-> 357, lng |-> 1394],
   Nagoya   |-> [lat |-> 351, lng |-> 1369],
   Sapporo  |-> [lat |-> 430, lng |-> 1413]]

\* The addresses of the properties, as text and as the geocoder sees them.
AddressParts ==
  [a \in {"Chiyoda 1-2-3", "Chiyoda", "Nagoya", "Sapporo"} |->
     IF a = "Chiyoda 1-2-3" THEN [area |-> "Chiyoda", number |-> "1-2-3"]
     ELSE [area |-> a, number |-> ""]]

\* geodesic(a, b).km, as far as the order of the distances goes: the squared
\* difference of the coordinates.
Distance(a, b) ==
  (a.lat - b.lat) * (a.lat - b.lat) + (a.lng - b.lng) * (a.lng - b.lng)

\* the second box tested before the first: Kanagawa wins where the boxes of
\* Tokyo and Kanagawa overlap
KanagawaBeforeTokyo(coords) ==
  IF coords.lat \in 353..357 /\ coords.lng \in 1393..1398 THEN "14"
  ELSE IF coords.lat \in 355..359 /\ coords.lng \in 1394..1400 THEN "13"
  ELSE IF coords.lat \in 345..350 /\ coords.lng \in 1353..1358 THEN "27"
  ELSE IF coords.lat \in 349..353 /\ coords.lng \in 1367..1372 THEN "23"
  ELSE "13"

\* _estimate_prefecture_code: the boxes in the order of the if-chain
_estimate_prefecture_code(coords) ==
  IF coords.lat \in 355..359 /\ coords.lng \in 1394..1400 THEN "13"
  ELSE IF coords.lat \in 353..357 /\ coords.lng \in 1393..1398 THEN "14"
  ELSE IF coords.lat \in 345..350 /\ coords.lng \in 1353..1358 THEN "27"
  ELSE IF coords.lat \in 349..353 /\ coords.lng \in 1367..1372 THEN "23"
  ELSE "13"

\* averages: the commercial price of each prefecture of the table, and of the
\* default entry
averages ==
  [pref_code \in {"13", "14", "27", "23", "40", "other"} |->
     IF pref_code = "13" THEN [name |-> "Tokyo", commercial |-> 2500000]
     ELSE IF pref_code = "14" THEN [name |-> "Kanagawa", commercial |-> 800000]
     ELSE IF pref_code = "27" THEN [name |-> "Osaka", commercial |-> 1200000]
     ELSE IF pref_code = "23" THEN [name |-> "Aichi", commercial |-> 600000]
     ELSE IF pref_code = "40" THEN [name |-> "Fukuoka", commercial |-> 500000]
     ELSE [name |-> "other", commercial |-> 300000]]

\* _get_prefecture_average
_get_prefecture_average(pref_code) ==
  LET avg == IF pref_code \in DOMAIN averages THEN averages[pref_code]
             ELSE averages["other"]
  IN [address |-> avg.name,
      price_per_sqm |-> avg.commercial,
      distance_km |-> Unset,
      source |-> PrefectureAverage]

LandOnly == "land"
LandAndBuilding == "land and building"

\* _calculate_price_per_sqm: int(price / area); 0 when the area is not
\* positive or the price is no number
_calculate_price_per_sqm(trade) ==
  IF trade.TradePrice = Unset THEN 0
  ELSE IF trade.Area > 0 THEN trade.TradePrice[1] \div trade.Area
  ELSE 0

\* "<=" for "<": a later trade at the same distance replaces the earlier one
IsCloserOrEqual(distance, min_distance) ==
  min_distance = Unset \/ distance <= min_distance[1]

\* distance < min_distance, min_distance being float('inf') at first
IsCloser(distance, min_distance) ==
  min_distance = Unset \/ distance < min_distance[1]

\* The trade as the observation _find_nearest_trade returns.
ObservationOf(trade, distance) ==
  [address |-> trade.Municipality,
   price_per_sqm |-> _calculate_price_per_sqm(trade),
   distance_km |-> Some(distance),
   source |-> NearestTrade]

RECURSIVE find_nearest_from(_, _, _, _)
\* The loop of _find_nearest_trade from the n-th trade on.  acc holds nearest
\* and min_distance, the memo of the client, and as history the number of
\* the trade nearest was made from; raised says that a call inside the loop
\* raised.  Each trade carries what the external geocoder answers when it is
\* asked for the locality of the trade.
find_nearest_from(trades, n, coords, acc) ==
  IF n > Len(trades) \/ acc.raised THEN acc
  ELSE
    LET trade == trades[n] IN
    IF trade.Type # LandOnly
      THEN find_nearest_from(trades, n + 1, coords, acc)
    ELSE
      LET trade_address == [area |-> trade.Municipality, number |-> ""]
          call == _geocode(acc.memo, trade_address, trade.geocoder, "nothing", 0)
          looked == [acc EXCEPT !.memo = call.memo, !.raised = call.raised]
      IN
      IF call.raised \/ call.result = NoLocation
        THEN find_nearest_from(trades, n + 1, coords, looked)
      ELSE
        LET distance == Distance(coords, CoordinatesOf[call.result.area]) IN
        IF IsCloser(distance, acc.min_distance)
          THEN find_nearest_from(trades, n + 1, coords,
                 [looked EXCEPT !.min_distance = Some(distance),
                                !.nearest = Some(ObservationOf(trade, distance)),
                                !.chosen = n])
          ELSE find_nearest_from(trades, n + 1, coords, looked)

\* _find_nearest_trade
_find_nearest_trade(trades, coords, memo) ==
  find_nearest_from(trades, 1, coords,
                    [nearest |-> Unset, min_distance |-> Unset, memo |-> memo,
                     chosen |-> 0, raised |-> FALSE])

\* What the price source does with the request: it answers with status 200
\* and a list of trades, with another status, with a body that is no JSON,
\* or the request raises (timeout, connection error).
PriceResponses == {"ok", "status 500", "not json", "raises"}

\* the fallback left out: None when no trade is found
NoFallback(pref_code) == [address |-> "", price_per_sqm |-> 0,
                          distance_km |-> Unset, source |-> None]

\* return self._get_prefecture_average(pref_code, year)
Fallback(pref_code) == _get_prefecture_average(pref_code)

\* _search_nearest_price: the nearest trade when the response is usable and
\* holds one, the prefecture average in every other case, an exception
\* inside the try block included.
_search_nearest_price(coords, response, trades, memo) ==
  LET pref_code == _estimate_prefecture_code(coords)
      found == _find_nearest_trade(trades, coords, memo)
  IN IF response = "ok" /\ ~found.raised /\ found.nearest # Unset
       THEN [observation |-> found.nearest[1], chosen |-> found.chosen,
             pref_code |-> pref_code, memo |-> found.memo]
       ELSE [observation |-> Fallback(pref_code), chosen |-> 0,
             pref_code |-> pref_code,
             memo |-> IF response = "ok" THEN found.memo ELSE memo]

\* get_land_price_by_address with the geocoder and the price source spelled
\* out: first and retry are the answers of the external geocoder to the
\* address and to its simplified form.
land_price_by_address(address, first, retry, response, trades, memo) ==
  LET coords == _geocode(memo, AddressParts[address], first, retry, 0) IN
  IF coords.raised
    THEN [raised |-> TRUE, found |-> FALSE, price_per_sqm |-> 0,
          source |-> None, calls |-> <<"geocoder">>, geocode |-> coords]
  ELSE IF coords.result = NoLocation
    THEN [raised |-> FALSE, found |-> FALSE, price_per_sqm |-> 0,
          source |-> None, calls |-> <<"geocoder">>, geocode |-> coords]
  ELSE
    LET price_data == _search_nearest_price(CoordinatesOf[coords.result.area],
                                            response, trades, coords.memo)
    IN [raised |-> FALSE,
        found |-> price_data.observation.source # None,
        price_per_sqm |-> price_data.observation.price_per_sqm,
        source |-> price_data.observation.source,
        calls |-> <<"geocoder", "price source">>,
        geocode |-> coords,
        coords |-> CoordinatesOf[coords.result.area],
        observation |-> price_data.observation,
        chosen |-> price_data.chosen,
        pref_code |-> price_data.pref_code]

MaxTrades == 2       \* trades in one answer of the price source

\* The trades the price source answers with.  Kanda and Ginza are at the same
\* distance from Chiyoda; the trade in Chiyoda itself is of land with a
\* building; the geocoder does not find the fifth and fails on the sixth,
\* whose price is no number.
Trades ==
  {[Type |-> LandOnly, Municipality |-> "Kanda", TradePrice |-> Some(40000000),
    Area |-> 100, geocoder |-> "location"],
   [Type |-> LandOnly, Municipality |-> "Ginza", TradePrice |-> Some(50000000),
    Area |-> 100, geocoder |-> "location"],
   [Type |-> LandOnly, Municipality |-> "Hachioji", TradePrice |-> Some(10000000),
    Area |-> 100, geocoder |-> "location"],
   [Type |-> LandAndBuilding, Municipality |-> "Chiyoda",
    TradePrice |-> Some(90000000), Area |-> 100, geocoder |-> "location"],
   [Type |-> LandOnly, Municipality |-> "Kanda", TradePrice |-> Some(70000000),
    Area |-> 100, geocoder |-> "nothing"],
   [Type |-> LandOnly, Municipality |-> "Ginza", TradePrice |-> Unset,
    Area |-> 0, geocoder |-> "raises"]}

TradeLists == UNION {[1..n -> Trades] : n \in 0..MaxTrades}

\* The answers of the geocoder to the address of the property: the second
\* matters only after "nothing".
GeocodeCases ==
  {c \in GeocoderAnswers \X GeocoderAnswers : c[1] = "nothing" \/ c[2] = "nothing"}

\* The property valued: owned, 100 sqm, book value 10 million yen.
PricedProperty(address) ==
  [type |-> "owned", address |-> address, land_area_sqm |-> Some(100),
   building_area_sqm |-> Unset, book_value_million_yen |-> Some(100),
   has_book_value |-> TRUE]

\* One call of estimate_market_value by a client with an empty memo.
InitLandPrice ==
  /\ BatchAtRest
  /\ val = NotObserved
  /\ pipe = NotObserved
  /\ filing = NotObserved
  /\ geo = NotObserved
  /\ parse = NotObserved
  /\ summary = NotObserved
  /\ price \in {[pc |-> "call", property_info |-> PricedProperty(a),
                 first |-> c[1], retry |-> c[2], response |-> r, trades |-> t] :
                  a \in DOMAIN AddressParts, c \in GeocodeCases,
                  r \in PriceResponses, t \in TradeLists}

\* estimate_market_value returns, or an exception leaves it.
EstimateWithServices ==
  /\ price.pc = "call"
  /\ LET land_price == land_price_by_address(price.property_info.address,
                                             price.first, price.retry,
                                             price.response, price.trades,
                                             EmptyMemo)
     IN price' =
          [pc |-> IF land_price.raised THEN "raised" ELSE "returned",
           property_info |-> price.property_info,
           first |-> price.first, retry |-> price.retry,
           response |-> price.response, trades |-> price.trades,
           land_price |-> land_price,
           result |-> IF land_price.raised THEN NotObserved
                      ELSE estimate_from(price.property_info, land_price)]
  /\ UNCHANGED <<batchVars, val, pipe, filing, geo, parse, summary>>

NextLandPrice == EstimateWithServices

SpecLandPrice == InitLandPrice /\ [][NextLandPrice]_vars

\* ----------------------------------------- claims about the price lookup
\* estimate_market_value has returned.
Priced == price.pc = "returned"

\* The external geocoder was asked for the address of the property and no
\* call returned a location.
GeocoderFailed ==
  /\ price.pc # "call"
  /\ price.land_price.geocode.answers # <<>>
  /\ \A k \in 1..Len(price.land_price.geocode.answers) :
       price.land_price.geocode.answers[k] # "location"

\* C23: no failure of the external geocoder leaves estimate_market_value as
\* an exception.  When the calls of the geocoder for the address of a
\* property end in a timeout, an exception or no match, _geocode returns
\* None, the price source is not asked, and the record is returned with the
\* note "land price lookup failed" and without estimated value, unrealized
\* gain, price used and estimation method.
C23_GeocoderFailureIsNotFatal ==
  /\ price.pc \in {"unobserved", "call", "returned"}
  /\ GeocoderFailed =>
       /\ Priced
       /\ price.land_price.geocode.result = [area |-> "", number |-> ""]
       /\ ~price.land_price.found
       /\ price.land_price.calls = <<"geocoder">>
       /\ price.result.estimation_notes = "land price lookup failed"
       /\ price.result.estimated_value_million_yen = <<>>
       /\ price.result.unrealized_gain_million_yen = <<>>
       /\ price.result.price_per_sqm_used = <<>>
       /\ price.result.estimation_method = None

\* The first call of the geocoder found nothing and the retry timed out; the
\* record came back unvalued.
C23_Witness ==
  /\ Priced
  /\ price.land_price.geocode.answers = <<"nothing", "times out">>
  /\ price.result.estimation_notes = "land price lookup failed"

\* The price source answered and _find_nearest_trade went through the trades.
TradesSearched ==
  /\ Priced
  /\ price.land_price.calls = <<"geocoder", "price source">>
  /\ price.response = "ok"

\* The locality of the n-th trade can be geocoded: the geocoder finds it, or
\* it found it for an earlier land trade of the list or for the property.
Geocodable(n) ==
  \/ price.trades[n].geocoder = "location"
  \/ \E k \in 1..(n - 1) :
       /\ price.trades[k].Type = "land"
       /\ price.trades[k].Municipality = price.trades[n].Municipality
       /\ price.trades[k].geocoder = "location"
  \/ /\ price.land_price.geocode.result # [area |-> "", number |-> ""]
     /\ AddressParts[price.property_info.address] =
          [area |-> price.trades[n].Municipality, number |-> ""]

\* The trades that are of land only and whose locality can be geocoded.
Usable ==
  {n \in 1..Len(price.trades) : price.trades[n].Type = "land" /\ Geocodable(n)}

DistanceTo(n) ==
  Distance(price.land_price.coords, CoordinatesOf[price.trades[n].Municipality])

\* C25: when the list of trades holds a trade of land only whose locality
\* can be geocoded, _find_nearest_trade returns the observation of such a
\* trade, none of them is nearer to the target, and none at the same
\* distance comes earlier in the list; a trade of another type is never the
\* one returned.
C25_NearestLandTradeFirstOnTies ==
  (TradesSearched /\ Usable # {}) =>
    /\ price.land_price.chosen \in Usable
    /\ price.trades[price.land_price.chosen].Type = "land"
    /\ \A m \in Usable :
         /\ DistanceTo(price.land_price.chosen) <= DistanceTo(m)
         /\ DistanceTo(m) = DistanceTo(price.land_price.chosen) =>
              price.land_price.chosen <= m
    /\ price.land_price.observation.distance_km =
         <<DistanceTo(price.land_price.chosen)>>
    /\ price.land_price.observation.address =
         price.trades[price.land_price.chosen].Municipality

\* Two usable trades in different places at the same distance from the
\* property: the first of the two was returned.
C25_Witness ==
  /\ TradesSearched
  /\ price.land_price.chosen = 1
  /\ 2 \in Usable
  /\ DistanceTo(2) = DistanceTo(1)
  /\ price.trades[1].Municipality # price.trades[2].Municipality

\* The commercial average of the table for a prefecture code.
AverageFor(pref_code) ==
  IF pref_code = "13" THEN 2500000
  ELSE IF pref_code = "14" THEN 800000
  ELSE IF pref_code = "27" THEN 1200000
  ELSE IF pref_code = "23" THEN 600000
  ELSE IF pref_code = "40" THEN 500000
  ELSE 300000

\* C26: once the address is geocoded, get_land_price_by_address returns an
\* observation.  It is the observation of a trade, with the source "nearest
\* trade", when the price source answers with status 200 and JSON and the
\* list holds a usable land trade; in every other case (the request raises,
\* another status, no JSON, no usable trade) it is the entry of the average
\* table for the prefecture code estimated from the coordinates, with the
\* source "prefecture average".
C26_AlwaysAnObservation ==
  (Priced /\ price.land_price.calls = <<"geocoder", "price source">>) =>
    /\ price.land_price.found
    /\ price.land_price.source \in {"nearest trade", "prefecture average"}
    /\ (price.response = "ok" /\ Usable # {}) =>
         /\ price.land_price.source = "nearest trade"
         /\ price.land_price.chosen \in Usable
    /\ (price.response # "ok" \/ Usable = {}) =>
         /\ price.land_price.source = "prefecture average"
         /\ price.land_price.chosen = 0
         /\ price.land_price.price_per_sqm = AverageFor(price.land_price.pref_code)
         /\ price.land_price.observation.distance_km = <<>>

\* The price source answered with trades none of which is usable, and the
\* average of the prefecture was returned.
C26_Witness ==
  /\ TradesSearched
  /\ price.trades # <<>>
  /\ Usable = {}
  /\ price.land_price.source = "prefecture average"
  /\ price.land_price.price_per_sqm = 600000

\* C27: a record that is valued carries as estimation method the source of
\* the observation whose price it was valued with, and that price: "prefecture
\* average" when the price is the average of the table, "nearest trade" when
\* it is the price of a trade.
C27_ProvenancePropagates ==
  (Priced /\ price.result.estimated_value_million_yen # <<>>) =>
    /\ price.result.estimation_method = price.land_price.observation.source
    /\ price.result.price_per_sqm_used =
         <<price.land_price.observation.price_per_sqm>>
    /\ price.result.estimation_method = "prefecture average" <=>
         price.land_price.chosen = 0
    /\ price.result.estimation_method = "nearest trade" <=>
         price.land_price.chosen \in 1..Len(price.trades)

\* A record valued with the prefecture average after the price source
\* failed.
C27_Witness ==
  /\ Priced
  /\ price.response = "raises"
  /\ price.result.estimated_value_million_yen # <<>>
  /\ price.result.estimation_method = "prefecture average"

\* ------------------------------ claude_parser.py: extract_properties
\* A text is the sequence of its characters.
BackQuote == "backquote"
Fence == <<BackQuote, BackQuote, BackQuote>>
FenceJson == Fence \o <<"j", "s", "o", "n">>
Whitespace == {" ", "\n"}

\* content[:1000]
RawResponseLimit == 1000

\* s.find(sub, start): the index (from 0) of the first occurrence of sub at
\* or after start, -1 when there is none
Find(s, sub, start) ==
  LET at == {k \in start..(Len(s) - Len(sub)) : SubSeq(s, k + 1, k + Len(sub)) = sub}
  IN IF at = {} THEN -1 ELSE CHOOSE k \in at : \A m \in at : k <= m

\* s[start:end] for start >= 0; a negative end counts from the end of s
Slice(s, start, end) ==
  LET hi == IF end < 0 THEN Len(s) + end ELSE Min(end, Len(s))
  IN IF hi <= start THEN <<>> ELSE SubSeq(s, start + 1, hi)

\* s.strip()
Strip(s) ==
  LET inked == {k \in 1..Len(s) : s[k] \notin Whitespace}
  IN IF inked = {} THEN <<>>
     ELSE SubSeq(s, CHOOSE k \in inked : \A m \in inked : k <= m,
                    CHOOSE k \in inked : \A m \in inked : k >= m)

\* s[:n]
Prefix(s, n) == SubSeq(s, 1, Min(n, Len(s)))

\* the text of n characters c
Repeat(c, n) == [k \in 1..n |-> c]

PropertiesKey == <<"\"", "p", "r", "o", "p", "e", "r", "t", "i", "e", "s", "\"", ":">>

\* The JSON texts of the model and the values json.loads gives them.  A value
\* is described by its type and by what an object holds under "properties".
JsonTexts ==
  {[text |-> <<"{", "}">>,
    value |-> [type |-> "object", properties |-> "absent"]],
   [text |-> <<"{">> \o PropertiesKey \o <<"[", "]", "}">>,
    value |-> [type |-> "object", properties |-> "empty list"]],
   [text |-> <<"{">> \o PropertiesKey \o <<"[", "{", "}", "]", "}">>,
    value |-> [type |-> "object", properties |-> "list of objects"]],
   [text |-> <<"{">> \o PropertiesKey \o <<"[", "1", "]", "}">>,
    value |-> [type |-> "object", properties |-> "list of numbers"]],
   [text |-> <<"{">> \o PropertiesKey \o <<"1", "}">>,
    value |-> [type |-> "object", properties |-> "number"]],
   [text |-> <<"[", "]">>,
    value |-> [type |-> "array", properties |-> "absent"]],
   [text |-> <<"1">>,
    value |-> [type |-> "number", properties |-> "absent"]],
   [text |-> <<"n", "u", "l", "l">>,
    value |-> [type |-> "null", properties |-> "absent"]]}

\* json.loads(text): the value, or JSONDecodeError.  Whitespace around the
\* value is allowed.
json_loads(text) ==
  LET known == {j \in JsonTexts : j.text = Strip(text)}
  IN IF known = {} THEN [raised |-> TRUE]
     ELSE [raised |-> FALSE, value |-> (CHOOSE j \in known : TRUE).value]

\* "raw_response": content[:1000]
Excerpt(content) == <<Prefix(content, RawResponseLimit)>>

\* _parse_json_response.  What it returns is described by: raised (never),
\* value (the type and properties of what is returned), error (None or the
\* message) and raw_response (absent or the excerpt).
_parse_json_response(content) ==
  LET inner ==
        IF Find(content, FenceJson, 0) # -1
          THEN LET start == Find(content, FenceJson, 0) + 7
                   end == Find(content, Fence, start)
               IN Strip(Slice(content, start, end))
        ELSE IF Find(content, Fence, 0) # -1
          THEN LET start == Find(content, Fence, 0) + 3
                   end == Find(content, Fence, start)
               IN Strip(Slice(content, start, end))
        ELSE content
      loaded == json_loads(inner)
  IN IF ~loaded.raised
       THEN [value |-> loaded.value, error |-> <<>>, raw_response |-> <<>>,
             parsed |-> inner]
       ELSE [value |-> [type |-> "object", properties |-> "empty list"],
             error |-> <<<<"JSON parse error: ", "JSONDecodeError">>>>,
             raw_response |-> Excerpt(inner), parsed |-> inner]

\* extract_properties with the answer of the extraction service spelled out:
\* the call raises, or it returns the text content.
extract_properties_of(api, content) ==
  IF api = "raises"
    THEN [value |-> [type |-> "object", properties |-> "empty list"],
          error |-> <<<<"api exception">>>>, raw_response |-> <<>>,
          parsed |-> <<>>]
    ELSE _parse_json_response(content)

\* The payloads the service answers with: the JSON texts, a short text that
\* is no JSON and one of more than 1000 characters.
Payloads ==
  {j.text : j \in JsonTexts}
    \cup {<<"o", "o", "p", "s">>, Repeat("x", RawResponseLimit + 1)}

Annotations == {<<>>, <<"H", "i", "\n">>}
Closings == {<<>>, <<"\n">> \o Fence, <<"\n">> \o Fence \o <<"\n", "O", "K">>}

\* The answers: a payload alone or inside a fence, with or without a line of
\* annotation before it, the closing fence present, followed by a remark, or
\* missing.
Contents ==
  {a \o payload : a \in Annotations, payload \in Payloads}
    \cup {a \o opening \o <<"\n">> \o payload \o closing :
            a \in Annotations, opening \in {Fence, FenceJson},
            payload \in Payloads, closing \in Closings}

\* The entity result as far as texts go (main.py 74-85): error is None or a
\* message; there is no field for the raw response.
ExtractionCalled(api, content) ==
  [pc |-> "extract", api |-> api, content |-> content,
   extracted |-> NotObserved, error |-> <<>>, valuation |-> "not called"]

\* extracted = self.property_extractor.extract_properties(...)
ExtractProperties ==
  /\ parse.pc = "extract"
  /\ parse' = [parse EXCEPT
                 !.pc = "extracted",
                 !.extracted = extract_properties_of(parse.api, parse.content)]
  /\ UNCHANGED <<batchVars, val, pipe, filing, geo, price, summary>>

\* if extracted.get("error") ... if not properties ... (main.py 113-127) and
\* the except clause at the end: a value that is no dictionary makes
\* extracted.get raise; properties that are no list of dictionaries are
\* handed to estimate_company_portfolio, which raises on them.
HandleExtracted ==
  /\ parse.pc = "extracted"
  /\ LET extracted == parse.extracted IN
     parse' =
       IF extracted.value.type # "object"
         THEN [parse EXCEPT !.pc = "returned",
                            !.error = <<<<"AttributeError">>>>]
       ELSE IF extracted.error # <<>>
         THEN [parse EXCEPT !.pc = "returned",
                            !.error = <<<<"extraction error: ">> \o extracted.error[1]>>]
       ELSE IF extracted.value.properties \in {"absent", "empty list"}
         THEN [parse EXCEPT !.pc = "returned",
                            !.error = <<<<"no properties extracted">>>>]
       ELSE IF extracted.value.properties = "list of objects"
         THEN [parse EXCEPT !.pc = "returned", !.valuation = "returned"]
       ELSE [parse EXCEPT !.pc = "returned", !.valuation = "raised",
                          !.error = <<<<"TypeError">>>>]
  /\ UNCHANGED <<batchVars, val, pipe, filing, geo, price, summary>>

InitExtraction ==
  /\ BatchAtRest
  /\ val = NotObserved
  /\ pipe = NotObserved
  /\ filing = NotObserved
  /\ geo = NotObserved
  /\ price = NotObserved
  /\ summary = NotObserved
  /\ parse \in {ExtractionCalled("returns", c) : c \in Contents}
               \cup {ExtractionCalled("raises", <<>>)}

NextExtraction == ExtractProperties \/ HandleExtracted

SpecExtraction == InitExtraction /\ [][NextExtraction]_vars

\* ------------------------------------------- claims about the extraction
\* The service returned a text whose payload, after the unwrapping, is no
\* JSON.
NotJson ==
  /\ parse.pc \in {"extracted", "returned"}
  /\ parse.api = "returns"
  /\ json_loads(parse.extracted.parsed).raised

\* The text sub occurs in the text.
Occurs(sub, text) == Find(text, sub, 0) # -1

\* C28: for a response that is no JSON, extract_properties returns a
\* dictionary with an error and with the first 1000 characters of the raw
\* response, and the result of the entity has its error set and holds that
\* excerpt.
C28_NonJsonKeepsExcerpt ==
  /\ NotJson =>
       /\ parse.extracted.error # <<>>
       /\ parse.extracted.raw_response =
            <<SubSeq(parse.content, 1, Min(1000, Len(parse.content)))>>
  /\ (NotJson /\ parse.pc = "returned") =>
       /\ parse.error # <<>>
       /\ parse.valuation = "not called"
       /\ Occurs(parse.extracted.raw_response[1], parse.error[1])

\* The payload parsed as JSON and what it gave is an object with a list of
\* objects under "properties".
ParsedJson ==
  /\ parse.pc \in {"extracted", "returned"}
  /\ parse.api = "returns"
  /\ ~json_loads(parse.extracted.parsed).raised

Conforms ==
  /\ parse.extracted.value.type = "object"
  /\ parse.extracted.value.properties \in {"empty list", "list of objects"}

\* C29: for a response that parses as JSON but is not an object with a list
\* of property objects under "properties", extract_properties returns a
\* dictionary with an error, and nothing of it reaches the valuation.
C29_SchemaValidated ==
  (ParsedJson /\ ~Conforms) =>
    /\ parse.extracted.error # <<>>
    /\ parse.valuation = "not called"

\* ----------------------------------------------- main.py: _print_summary
\* [:10]
TopCount == 10

MaxResults == 3      \* length of the result lists enumerated in full

\* A result as _print_summary reads it: stored for the stock at position
\* stock_code of the roster, with or without an error, with totals in million
\* yen.  A result with an error can carry totals (the map step failed).
SummaryResult(stock_code, kind) ==
  [stock_code |-> stock_code,
   error |-> IF kind.failed THEN "error" ELSE None,
   total_book_value_million_yen |-> 2,
   total_estimated_value_million_yen |-> 2 + kind.gain,
   total_unrealized_gain_million_yen |-> kind.gain]

ResultKinds ==
  [failed : {FALSE}, gain : {-5, 0, 10}] \cup [failed : {TRUE}, gain : {0, 10}]

\* The result lists: every list of up to MaxResults results, and lists of two
\* more than ten results that are alike but for one.
ResultLists ==
  {[j \in 1..n |-> SummaryResult(j, kinds[j])] :
     n \in 0..MaxResults, kinds \in [1..MaxResults -> ResultKinds]}
  \cup
  {[j \in 1..(TopCount + 2) |->
      SummaryResult(j, IF j = k THEN kind ELSE [failed |-> FALSE, gain |-> 0])] :
     k \in 1..(TopCount + 2), kind \in ResultKinds}

\* x.get("total_unrealized_gain_million_yen", 0) or 0
GainKey(r) == r.total_unrealized_gain_million_yen

\* a result moves in front of the results with the same gain
StaysBehindGreater(r, other) == GainKey(other) > GainKey(r)

\* sorted(..., reverse=True) is stable: a result stays behind the results
\* before it whose gain is greater or the same
StaysBehind(r, other) == GainKey(other) >= GainKey(r)

RECURSIVE InsertByGain(_, _)
InsertByGain(ranked, r) ==
  IF ranked = <<>> THEN <<r>>
  ELSE IF StaysBehind(r, Head(ranked))
    THEN <<Head(ranked)>> \o InsertByGain(Tail(ranked), r)
  ELSE <<r>> \o ranked

RECURSIVE SortedByGain(_)
\* sorted(successful, key=..., reverse=True)
SortedByGain(rs) ==
  IF rs = <<>> THEN <<>>
  ELSE InsertByGain(SortedByGain(SubSeq(rs, 1, Len(rs) - 1)), rs[Len(rs)])

RECURSIVE SumOf(_, _)
\* sum(r.get(field, 0) or 0 for r in rs)
SumOf(rs, field) ==
  IF rs = <<>> THEN 0 ELSE Head(rs)[field] + SumOf(Tail(rs), field)

\* _print_summary: what it prints
_print_summary(rs) ==
  LET successful == SelectSeq(rs, LAMBDA r : ~HasError(r))
      failed == SelectSeq(rs, LAMBDA r : HasError(r))
  IN [successful |-> Len(successful),
      failed |-> Len(failed),
      total_book |-> SumOf(successful, "total_book_value_million_yen"),
      total_estimated |-> SumOf(successful, "total_estimated_value_million_yen"),
      total_gain |-> SumOf(successful, "total_unrealized_gain_million_yen"),
      top10 |-> Take(SortedByGain(successful), TopCount)]

InitSummary ==
  /\ BatchAtRest
  /\ val = NotObserved
  /\ pipe = NotObserved
  /\ filing = NotObserved
  /\ geo = NotObserved
  /\ price = NotObserved
  /\ parse = NotObserved
  /\ summary \in {[pc |-> "call", results |-> rs] : rs \in ResultLists}

PrintSummary ==
  /\ summary.pc = "call"
  /\ summary' = [pc |-> "printed", results |-> summary.results,
                 printed |-> _print_summary(summary.results)]
  /\ UNCHANGED <<batchVars, val, pipe, filing, geo, price, parse>>

NextSummary == PrintSummary

SpecSummary == InitSummary /\ [][NextSummary]_vars

\* --------------------------------------------- claims about the summary
\* The positions of the results without an error.
Successes ==
  {j \in 1..Len(summary.results) : summary.results[j].error = "None"}

RECURSIVE Total(_, _)
\* The sum of a field over the results at the positions js.
Total(js, field) ==
  IF js = {} THEN 0
  ELSE LET j == CHOOSE k \in js : TRUE
       IN summary.results[j][field] + Total(js \ {j}, field)

\* The result a comes before the result b in the ranking: greater gain, or
\* the same gain and earlier in the roster.
RanksBefore(a, b) ==
  \/ a.total_unrealized_gain_million_yen > b.total_unrealized_gain_million_yen
  \/ /\ a.total_unrealized_gain_million_yen = b.total_unrealized_gain_million_yen
     /\ a.stock_code < b.stock_code

\* C30: _print_summary counts every result once, as a success or as a
\* failure; the three totals are the sums over the results without an error;
\* the ranked list holds the ten first successes (all when there are fewer)
\* of the order by unrealized gain descending, results with the same gain in
\* the order of the roster.
C30_SummaryPartitionsAndRanks ==
  summary.pc = "printed" =>
    LET out == summary.printed IN
    /\ out.successful + out.failed = Len(summary.results)
    /\ out.successful = Cardinality(Successes)
    /\ out.total_book = Total(Successes, "total_book_value_million_yen")
    /\ out.total_estimated = Total(Successes, "total_estimated_value_million_yen")
    /\ out.total_gain = Total(Successes, "total_unrealized_gain_million_yen")
    /\ Len(out.top10) = (IF out.successful < 10 THEN out.successful ELSE 10)
    /\ \A k \in 1..Len(out.top10) :
         /\ out.top10[k].stock_code \in Successes
         /\ out.top10[k] = summary.results[out.top10[k].stock_code]
         /\ k > 1 => RanksBefore(out.top10[k - 1], out.top10[k])
         /\ \A j \in Successes :
              RanksBefore(summary.results[j], out.top10[k]) =>
                \E m \in 1..(k - 1) : out.top10[m].stock_code = j

\* Eleven successes and a failure that carries totals; the ten listed hold a
\* result with the same gain as the one left out.
C30_Witness ==
  /\ summary.pc = "printed"
  /\ summary.printed.successful = 11
  /\ summary.printed.failed = 1
  /\ Len(summary.printed.top10) = 10
  /\ \E j \in 1..Len(summary.results) :
       /\ summary.results[j].error # "None"
       /\ summary.results[j].total_unrealized_gain_million_yen # 0
  /\ \E j \in Successes :
       /\ \A k \in 1..10 : summary.printed.top10[k].stock_code # j
       /\ summary.results[j].total_unrealized_gain_million_yen =
            summary.printed.top10[10].total_unrealized_gain_million_yen

\* ------------------------- land_price.py: the prefecture of a coordinate
\* The coordinates looked at, in tenths of a degree: every latitude from
\* below the southernmost box to above the northernmost, and the longitudes
\* around the west and east edges of the four boxes.
Latitudes == (345 - 1)..(359 + 1)
Longitudes ==
  ((1353 - 1)..(1358 + 1)) \cup ((1367 - 1)..(1372 + 1)) \cup ((1393 - 1)..(1400 + 1))

\* One call of _estimate_prefecture_code, followed by the lookup of the code
\* in the table of averages the way _search_nearest_price falls back to it.
InitRegionHint ==
  /\ BatchAtRest
  /\ val = NotObserved
  /\ pipe = NotObserved
  /\ filing = NotObserved
  /\ geo = NotObserved
  /\ parse = NotObserved
  /\ summary = NotObserved
  /\ price \in {[pc |-> "region", coords |-> [lat |-> la, lng |-> lo]] :
                  la \in Latitudes, lo \in Longitudes}

EstimatePrefectureCode ==
  /\ price.pc = "region"
  /\ LET pref_code == _estimate_prefecture_code(price.coords) IN
     price' = [pc |-> "hinted", coords |-> price.coords,
               pref_code |-> pref_code,
               average |-> _get_prefecture_average(pref_code)]
  /\ UNCHANGED <<batchVars, val, pipe, filing, geo, parse, summary>>

NextRegionHint == EstimatePrefectureCode

SpecRegionHint == InitRegionHint /\ [][NextRegionHint]_vars

\* ------------------------------------------- claims about the region hint
Hinted == price.pc = "hinted"

\* The boxes of the four prefectures, in degrees times ten.
InBox(c, south, north, west, east) ==
  south <= c.lat /\ c.lat <= north /\ west <= c.lng /\ c.lng <= east
InTokyoBox(c) == InBox(c, 355, 359, 1394, 1400)
InKanagawaBox(c) == InBox(c, 353, 357, 1393, 1398)
InOsakaBox(c) == InBox(c, 345, 350, 1353, 1358)
InAichiBox(c) == InBox(c, 349, 353, 1367, 1372)

\* C31: the prefecture code of a coordinate is that of the first of the boxes
\* Tokyo, Kanagawa, Osaka, Aichi that contains it: Tokyo ("13") wherever the
\* Tokyo box contains it, the Kanagawa box containing it too or not, and the
\* default "13" when no box contains it.  The code is always a key of the
\* table of averages, so the average looked up is never the entry for
\* unlisted prefectures.
C31_FirstBoxWinsDefaultOtherwise ==
  Hinted =>
    LET c == price.coords IN
    /\ InTokyoBox(c) => price.pref_code = "13"
    /\ (~InTokyoBox(c) /\ InKanagawaBox(c)) => price.pref_code = "14"
    /\ (~InTokyoBox(c) /\ ~InKanagawaBox(c) /\ InOsakaBox(c)) =>
         price.pref_code = "27"
    /\ (~InTokyoBox(c) /\ ~InKanagawaBox(c) /\ ~InOsakaBox(c) /\ InAichiBox(c)) =>
         price.pref_code = "23"
    /\ (~InTokyoBox(c) /\ ~InKanagawaBox(c) /\ ~InOsakaBox(c) /\ ~InAichiBox(c)) =>
         price.pref_code = "13"
    /\ price.pref_code \in {"13", "14", "27", "23", "40"}
    /\ price.average.address # "other"
    /\ price.average.price_per_sqm = AverageFor(price.pref_code)

\* A coordinate inside both the Tokyo and the Kanagawa box got the code of
\* Tokyo.
C31_Witness ==
  /\ Hinted
  /\ InTokyoBox(price.coords)
  /\ InKanagawaBox(price.coords)
  /\ price.pref_code = "13"

\* The responses that carry the payload: the payload alone, or inside a fence
\* of either kind, with or without an annotation before the fence, the
\* closing fence present, followed by a remark, or missing.
Wrappings(payload) ==
  {payload}
    \cup {a \o opening \o <<"\n">> \o payload \o closing :
            a \in Annotations, opening \in {Fence, FenceJson},
            closing \in Closings}

\* C33: a response that is a JSON payload alone or inside a fence, the
\* closing fence missing or not, is parsed to the value of the payload,
\* without an error.
C33_UnwrappingFindsPayload ==
  (parse.pc \in {"extracted", "returned"} /\ parse.api = "returns") =>
    \A j \in JsonTexts :
      parse.content \in Wrappings(j.text) =>
        /\ parse.extracted.error = <<>>
        /\ parse.extracted.value = j.value

\* ------------- claude_parser.py: the report text handed to the service
max_length == 50000

\* "\n... (omitted)", the marker appended to a text that was cut
TruncationMarker ==
  <<"\n", ".", ".", ".", " ", "(", "o", "m", "i", "t", "t", "e", "d", ")">>

\* ">=" for ">": a text of exactly max_length characters gets the marker
IsTooLongOrEqual(report_text) == Len(report_text) >= max_length

\* len(report_text) > max_length
IsTooLong(report_text) == Len(report_text) > max_length

\* report_text as it is put into the user prompt (claude_parser.py 61-64)
TruncatedReport(report_text) ==
  IF IsTooLong(report_text)
    THEN SubSeq(report_text, 1, max_length) \o TruncationMarker
    ELSE report_text

\* The digits, and a report text of n characters: its digits in turn, or the
\* same letter throughout.
Digit == <<"0", "1", "2", "3", "4", "5", "6", "7", "8", "9">>
ReportOfDigits(n) == [k \in 1..n |-> Digit[(k % 10) + 1]]
ReportOfLetters(n) == [k \in 1..n |-> "x"]

\* The lengths: short texts, and the lengths around max_length.
ReportLengths == (0..40) \cup ((max_length - 5)..(max_length + 10))

\* One call of extract_properties up to the building of the prompt.
InitTruncation ==
  /\ BatchAtRest
  /\ val = NotObserved
  /\ pipe = NotObserved
  /\ filing = NotObserved
  /\ geo = NotObserved
  /\ price = NotObserved
  /\ summary = NotObserved
  /\ parse \in {[pc |-> "report", report_text |-> t] :
                  t \in {ReportOfDigits(n) : n \in ReportLengths}
                          \cup {ReportOfLetters(n) : n \in ReportLengths}}

BuildPrompt ==
  /\ parse.pc = "report"
  /\ parse' = [pc |-> "prompted", report_text |-> parse.report_text,
               delegated |-> TruncatedReport(parse.report_text)]
  /\ UNCHANGED <<batchVars, val, pipe, filing, geo, price, summary>>

NextTruncation == BuildPrompt

SpecTruncation == InitTruncation /\ [][NextTruncation]_vars

\* ------------------------------------------- claims about the truncation
Prompted == parse.pc = "prompted"

\* C32: a report text of more than 50000 characters is handed on as its
\* first 50000 characters followed by the marker, and a text of 50000
\* characters or fewer is handed on as it is, without the marker.
C32_LongTextKeepsHeadAndMarker ==
  Prompted =>
    LET text == parse.report_text
        sent == parse.delegated
    IN IF Len(text) > 50000
         THEN /\ Len(sent) = 50000 + Len(TruncationMarker)
              /\ \A k \in 1..50000 : sent[k] = text[k]
              /\ \A k \in 1..Len(TruncationMarker) :
                   sent[50000 + k] = TruncationMarker[k]
         ELSE sent = text

\* A text of 50001 characters was cut to 50000 and the marker.
C32_Witness ==
  /\ Prompted
  /\ Len(parse.report_text) = 50001
  /\ Len(parse.delegated) = 50000 + Len(TruncationMarker)
  /\ parse.delegated[50000] = parse.report_text[50000]

\* --------------------------------- further claims about the batch drivers
\* A run of run_batch that got past the loading of the checkpoint.
InRunBatch ==
  /\ driver = "run_batch"
  /\ pc \in {"loop", "open", "dump", "final_dump", "done", "aborted"}

\* The roster entities pending when the run started, in roster order: those
\* without a stored result that has no error.
PendingAtStart ==
  SelectSeq(topix500, LAMBDA s : s.code \notin StoredOk(start_file.data))

\* C34: in a run of run_batch the list written to the checkpoint, and the
\* checkpoint whenever it holds a list, begin with the content read when the
\* run started; the entities the run processes are the first ones pending at
\* the start, in roster order and no more than batch_size of them; and a run
\* that finds nothing pending leaves the checkpoint as it found it.
C34_CheckpointOnlyGrows ==
  InRunBatch =>
    /\ IsPrefix(start_file.data, results)
    /\ results_file.state = "json" => IsPrefix(start_file.data, results_file.data)
    /\ Len(processed) <= arg
    /\ Len(processed) <= Len(PendingAtStart)
    /\ \A k \in 1..Len(processed) : processed[k].code = PendingAtStart[k].code
    /\ Len(results) = Len(start_file.data) + Len(processed)
    /\ PendingAtStart = <<>> =>
         /\ pc = "done"
         /\ processed = <<>>
         /\ results_file = start_file

\* A run that started from a checkpoint with content, processed batch_size
\* entities while more were pending, and wrote a longer checkpoint.
C34_Witness ==
  /\ InRunBatch
  /\ pc = "done"
  /\ start_file.data # <<>>
  /\ Len(processed) = arg
  /\ arg < Len(PendingAtStart)
  /\ results_file.state = "json"
  /\ Len(results_file.data) = Len(start_file.data) + arg

\* run_batch alone (python weekly_runner.py --batch-size n), over the roster
\* of the other specifications or over one whose stocks all carry an EDINET
\* code of their own, as those of the built-in roster of topix500.py do, so
\* that a run can leave nothing pending.  The pipeline succeeds, or its last
\* stage raises and analyze_single_company returns a result with an error.
RunBatchOutcomes == {"ok", "map_raises"}

CodedRoster == [c \in Codes |-> [code |-> c, edinet_code |-> 100 + c]]

InitRunBatch ==
  /\ topix500 \in {fetch_topix500, CodedRoster}
  /\ results_file = AbsentFile
  /\ pc = "idle"
  /\ driver = "none"
  /\ skip_existing = FALSE
  /\ arg = 0
  /\ stocks = <<>>
  /\ i = 0
  /\ results = <<>>
  /\ existing_results = EmptyDict
  /\ run = 0
  /\ start_file = AbsentFile
  /\ processed = <<>>
  /\ mode = "fresh"
  /\ ComponentsAtRest

NextRunBatch ==
  \/ \E batch_size \in BatchSizes : StartBatch(batch_size)
  \/ WeeklyNoEdinet
  \/ \E oc \in RunBatchOutcomes : WeeklyAnalyze(oc)
  \/ WeeklyOpen
  \/ WeeklyDump
  \/ WeeklyFinalOpen
  \/ WeeklyFinalDump
  \/ Crash

SpecRunBatch == InitRunBatch /\ [][NextRunBatch]_vars

\* A run that found every roster entity stored without an error.
C34_NothingPending ==
  /\ InRunBatch
  /\ PendingAtStart = <<>>
  /\ start_file.data # <<>>
  /\ results_file = start_file

\* The roster entry of a stock code, and the results the run holds in memory
\* or the checkpoint holds.
RosterEntry(code) == CHOOSE s \in Range(topix500) : s.code = code
KnownResults == Range(results) \cup Range(results_file.data)

\* The stock has no EDINET code, neither its own nor one in the mapping.
WithoutEdinetCode(s) == s.edinet_code = 0 /\ s.code \notin DOMAIN edinet_mapping

\* C35: a roster entity that has no EDINET code, neither in its roster entry
\* nor in the mapping, gets the result "EDINET code not found" and the
\* pipeline is not invoked for it; every other entity that is processed goes
\* through the pipeline, with the code of its roster entry when it carries
\* one and with the code of the mapping otherwise.
C35_NoCodeIsAnErrorOwnCodePreferred ==
  /\ \A p \in Range(processed) :
       WithoutEdinetCode(RosterEntry(p.code)) <=> p.outcome = "no_edinet"
  /\ \A r \in KnownResults :
       LET s == RosterEntry(r.stock_code) IN
       /\ WithoutEdinetCode(s) =>
            r.error = "EDINET code not found" /\ r.edinet_code = 0
       /\ s.edinet_code # 0 => r.edinet_code = s.edinet_code
       /\ (s.edinet_code = 0 /\ s.code \in DOMAIN edinet_mapping) =>
            r.edinet_code = edinet_mapping[s.code]

\* A run that recorded the error for a stock without a code and put a stock
\* that has a code of its own and another in the mapping through the
\* pipeline.
C35_Witness ==
  /\ \E p \in Range(processed) : p.outcome = "no_edinet"
  /\ \E r \in Range(results) :
       /\ r.error = "EDINET code not found"
       /\ WithoutEdinetCode(RosterEntry(r.stock_code))
  /\ \E r \in Range(results) :
       LET s == RosterEntry(r.stock_code) IN
       /\ s.edinet_code # 0
       /\ s.code \in DOMAIN edinet_mapping
       /\ edinet_mapping[s.code] # s.edinet_code
       /\ r.edinet_code = s.edinet_code

\* analyze_topix500 was started with skip-existing disabled (--no-cache).
WithoutSkip == driver = "analyze_topix500" /\ ~skip_existing

\* The result is one of the current run: the pipeline stamps its results with
\* the time of the run, and the record for a missing EDINET code carries no
\* time.
OfCurrentRun(r) ==
  \/ r.analyzed_at = run
  \/ r.error = "EDINET code not found" /\ r.analyzed_at = 0

\* C36: with skip-existing disabled analyze_topix500 does not read the
\* checkpoint (a truncated checkpoint does not stop it and no stored result
\* is loaded), every entity of the roster up to the limit is processed in
\* turn, through the pipeline when it has an EDINET code, and once the run
\* has written the checkpoint, the checkpoint holds results of the current
\* run only: the first results of the run's list, whatever it held before.
C36_NoCacheStartsOver ==
  WithoutSkip =>
    /\ pc # "load_error"
    /\ RunningOrDone =>
         /\ existing_results = EmptyDict
         /\ Len(results) = Len(processed)
         /\ \A k \in 1..Len(processed) :
              /\ processed[k].code = stocks[k].code
              /\ results[k].stock_code = stocks[k].code
              /\ processed[k].outcome = "no_edinet" <=>
                   WithoutEdinetCode(stocks[k])
         /\ pc = "done" => Len(processed) = Len(stocks)
         /\ pc = "loop" => Len(processed) = i - 1
         /\ \A r \in Range(results) : OfCurrentRun(r)
         /\ \/ results_file = start_file
            \/ results_file.state = "torn"
            \/ /\ results_file.state = "json"
               /\ results_file.data # <<>>
               /\ IsPrefix(results_file.data, results)

\* A run without skip-existing found a checkpoint with several results and
\* has replaced it by a shorter one.
C36_Witness ==
  /\ WithoutSkip
  /\ pc = "done"
  /\ start_file.state = "json"
  /\ results_file.state = "json"
  /\ results_file # start_file
  /\ Len(results_file.data) < Len(start_file.data)
  /\ \E r \in Range(start_file.data) : r \notin Range(results_file.data)

\* ---------------------------------------- claims about the geocode memo
\* The client has looked an address up at least once.
LookedUp == geo.pc = "ready" /\ geo.lookups > 0

\* C37: the memo holds successful resolutions only.  A lookup that ends
\* without a location leaves the memo as it was, the address still not in
\* it; a lookup of an address that is not in the memo calls the external
\* geocoder, so the lookup after a failed one does; a location found by the
\* retry with the simplified address is stored under the address as given,
\* and the only key a lookup adds is its own address.
C37_MemoHoldsSuccessesOnly ==
  LookedUp =>
    /\ \A a \in DOMAIN geo.memo : geo.memo[a].location.area # ""
    /\ geo.last.result.area = "" =>
         /\ geo.memo = geo.last.memo_before
         /\ geo.last.address \notin DOMAIN geo.memo
    /\ geo.last.address \notin DOMAIN geo.last.memo_before =>
         geo.last.external_calls >= 1
    /\ geo.last.result.area # "" =>
         /\ DOMAIN geo.memo = DOMAIN geo.last.memo_before \cup {geo.last.address}
         /\ geo.memo[geo.last.address].location = geo.last.result
    /\ geo.last.answers = <<"nothing", "location">> =>
         /\ geo.last.address.number # ""
         /\ geo.last.address \in DOMAIN geo.memo
         /\ geo.memo[geo.last.address].location.number = ""

\* After lookups that all failed and left the memo empty, an address with a
\* house number was not found at first, found by the retry, and stored under
\* the address as given.
C37_Witness ==
  /\ LookedUp
  /\ geo.lookups >= 2
  /\ geo.last.memo_before = EmptyMemo
  /\ geo.last.answers = <<"nothing", "location">>
  /\ geo.last.address.number # ""
  /\ DOMAIN geo.memo = {geo.last.address}

\* ------------------- edinet_api.py: a cache file that cannot be read back
\* The filing cache of one entity that starts with a cache file written
\* today, 29 or 30 days ago: a sound one, or one that is damaged.
CacheAges == {0, CacheFreshDays - 1, CacheFreshDays}

InitDamagedCache ==
  /\ BatchAtRest
  /\ val = NotObserved
  /\ pipe = NotObserved
  /\ geo = NotObserved
  /\ price = NotObserved
  /\ parse = NotObserved
  /\ summary = NotObserved
  /\ filing \in
       {[FilingStart(published) EXCEPT !.cache = cache] :
          published \in {{}, {OldFilingDay}},
          cache \in {DamagedFile(StartDay - age, d) : age \in CacheAges, d \in Damages}
                      \cup {CacheFile(StartDay - age, Some(OldFilingDay)) :
                              age \in CacheAges}}

NextDamagedCache ==
  \/ \E api \in {"up", "down"} : SearchAnnualReport(api)
  \/ Publish
  \/ \E days \in Ticks : Tick(days)

SpecDamagedCache == InitDamagedCache /\ [][NextDamagedCache]_vars

\* The last call found a cache file under 30 days old that cannot be read
\* back.
FoundFreshDamagedFile ==
  /\ filing.pc = "ready"
  /\ filing.last.served_from # "none"
  /\ filing.last.cache_before # <<>>
  /\ "damage" \in DOMAIN filing.last.cache_before[1]
  /\ filing.last.day - filing.last.cache_before[1].mtime < 30

MaxDownloads == 3    \* calls of download_document in one behaviour

\* The documents asked for and the output types (1: ZIP, 2: PDF).
DocIds == {"S100A", "S100B"}
OutputTypes == {1, 2}

\* self.cache_dir / f"{doc_id}.{'zip' if output_type == 1 else 'pdf'}"
cache_file_of(doc_id, output_type) ==
  <<doc_id, IF output_type = 1 THEN "zip" ELSE "pdf">>

\* response.content: the bytes the repository serves for a document and a
\* type.  A file holds such bytes whole, or the part of them that reached it
\* before a write failed.
ContentOf(doc_id, output_type) ==
  [doc_id |-> doc_id, output_type |-> output_type, whole |-> TRUE]
PartOf(content) == [content EXCEPT !.whole = FALSE]

\* What the request does: it answers with status 200 and the bytes, with an
\* error status (raise_for_status raises), or it raises itself.
DownloadAnswers == {"ok", "error status", "raises"}

\* What write_bytes does: it writes the bytes, or it raises after the file
\* was opened for writing (no space left, for one).
WriteOutcomes == {"written", "fails"}

\* download_document on the cache directory files, a function from file
\* names to contents.  Returns the bytes or None, the files after the call
\* and the number of external requests made.
download_document(files, doc_id, output_type, answer, write) ==
  LET cache_file == cache_file_of(doc_id, output_type)
      content == ContentOf(doc_id, output_type)
      With(c) == [f \in DOMAIN files \cup {cache_file} |->
                    IF f = cache_file THEN c ELSE files[f]]
  IN
  IF cache_file \in DOMAIN files
    THEN [bytes |-> <<files[cache_file]>>, files |-> files, requests |-> 0]
  ELSE IF answer # "ok"
    THEN [bytes |-> <<>>, files |-> files, requests |-> 1]
  ELSE IF write = "written"
    THEN [bytes |-> <<content>>, files |-> With(content), requests |-> 1]
  ELSE [bytes |-> <<>>, files |-> With(PartOf(content)), requests |-> 1]

NoFiles == [f \in {} |-> <<>>]

\* An EDINETClient with an empty cache directory; succeeded is the history
\* of the documents and types a call has returned downloaded bytes for.
DownloadStart ==
  [pc |-> "ready", files |-> NoFiles, calls |-> 0, succeeded |-> {},
   last |-> [doc_id |-> "", output_type |-> 0, bytes |-> <<>>, requests |-> 0,
             succeeded_before |-> {}, files_before |-> NoFiles]]

InitDocumentCache ==
  /\ BatchAtRest
  /\ val = NotObserved
  /\ pipe = NotObserved
  /\ geo = NotObserved
  /\ price = NotObserved
  /\ parse = NotObserved
  /\ summary = NotObserved
  /\ filing = DownloadStart

\* One call of download_document.
DownloadDocument(doc_id, output_type, answer, write) ==
  /\ filing.pc = "ready"
  /\ filing.calls < MaxDownloads
  /\ LET call == download_document(filing.files, doc_id, output_type, answer, write)
     IN filing' =
          [pc |-> "ready",
           files |-> call.files,
           calls |-> filing.calls + 1,
           succeeded |-> IF call.bytes # <<>> /\ call.requests = 1
                           THEN filing.succeeded \cup {<<doc_id, output_type>>}
                           ELSE filing.succeeded,
           last |-> [doc_id |-> doc_id, output_type |-> output_type,
                     bytes |-> call.bytes, requests |-> call.requests,
                     succeeded_before |-> filing.succeeded,
                     files_before |-> filing.files]]
  /\ UNCHANGED <<batchVars, val, pipe, geo, price, parse, summary>>

NextDocumentCache ==
  \E doc_id \in DocIds, output_type \in OutputTypes,
     answer \in DownloadAnswers, write \in WriteOutcomes :
       DownloadDocument(doc_id, output_type, answer, write)

SpecDocumentCache == InitDocumentCache /\ [][NextDocumentCache]_vars

\* ------------------------------------- claims about the document cache
\* The name of the cache file of a document and a type.
FileNameOf(k) == <<k[1], IF k[2] = 1 THEN "zip" ELSE "pdf">>

\* C39: the cache directory holds a file exactly for the documents and types
\* a download has succeeded for, each holding the bytes of that download; a
\* call for a document and type downloaded before makes no external request
\* and returns those bytes; and a call that returns None leaves the cache
\* directory as it was.
C39_CachedBytesAreDownloads ==
  (filing.pc = "ready" /\ filing.calls > 0) =>
    /\ DOMAIN filing.files = {FileNameOf(k) : k \in filing.succeeded}
    /\ \A k \in filing.succeeded :
         filing.files[FileNameOf(k)] =
           [doc_id |-> k[1], output_type |-> k[2], whole |-> TRUE]
    /\ <<filing.last.doc_id, filing.last.output_type>> \in filing.last.succeeded_before =>
         /\ filing.last.requests = 0
         /\ filing.last.bytes =
              <<[doc_id |-> filing.last.doc_id,
                 output_type |-> filing.last.output_type, whole |-> TRUE]>>
    /\ filing.last.bytes = <<>> => filing.files = filing.last.files_before

====
